---- MODULE Spec2Model ----
(***************************************************************************)
(* Family-Budget-Tool: the ledger store of the budgeting page (accounts,   *)
(* incomes, expenses, transfers, investments, goals and the derived        *)
(* journal of account transactions), its recurrence projection and its     *)
(* refresh from the hosted backend.                                        *)
(*                                                                         *)
(* Conventions of the model                                                *)
(*  - Money is an integer number of tenths of a cent; Unit is one cent.     *)
(*    The amounts entered are whole cents (the data model's amounts have   *)
(*    two fraction digits); Round2 is toFixed(2).                          *)
(*  - A text value is a sequence of string pieces, "" is <<>>, and a       *)
(*    template string is the concatenation of its pieces.                  *)
(*  - A date "YYYY-MM-DD" is the record [y, m, d]; "" is NoDate.           *)
(*  - An id is the number mkId handed out; an absent id is NoId.           *)
(*  - A journal entry's own id (a fresh mkId that no operation ever reads) *)
(*    is left out of the entry.                                            *)
(***************************************************************************)
EXTENDS Integers, Sequences, FiniteSets, TLC

VARIABLES
  store,          \* the Store of the page (useState)
  nextId,         \* the next value mkId returns
  last,           \* the handler or step that ran last, and how it went
  cloudOn,        \* cloud (hosted backend) mode is on
  workspaceId,    \* the workspace of the signed-in user, or NoId
  deriveBalances, \* the "Derived balances" switch
  cloudLoading,   \* the refresh spinner flag
  cloud,          \* the rows of the hosted backend's tables
  tasks,          \* the asynchronous calls in flight
  outcome,        \* how the asynchronous call that ended last ended
  selectedMonth,  \* the month the MonthSwitcher shows (year, month)
  zone,           \* where the browser's time zone lies from UTC
  dbPromise,      \* db.ts: the module's dbPromise, NoDb while null
  loads,          \* db.ts: the calls of Database.load made so far
  callers         \* db.ts: the calls of getDb made, each where it stands

vars == <<store, nextId, last, cloudOn, workspaceId, deriveBalances, cloudLoading,
          cloud, tasks, outcome, selectedMonth, zone, dbPromise, loads, callers>>

\* the state of the embedded database's module
dbVars == <<dbPromise, loads, callers>>

\* let dbPromise: Promise<any> | null = null, and nothing has called getDb
NoDb == 0
dbClosed == dbPromise = NoDb /\ loads = 0 /\ callers = << >>

(***************************************************************************)
(* Bounds of the model                                                     *)
(***************************************************************************)
MaxIds == 4        \* ids mkId hands out
MaxAccounts == 2   \* accounts in the store at once
MaxTasks == 1      \* asynchronous calls in flight at once
MaxCloudIds == 4   \* ids handed out before the last insert call in cloud mode

(***************************************************************************)
(* Values                                                                  *)
(***************************************************************************)
Unit == 10
NoId == 0
NoDate == [y |-> 0, m |-> 0, d |-> 0]
Empty == << >>

Date(y, m, d) == [y |-> y, m |-> m, d |-> d]

\* x < 0 ? -x : x
Abs(x) == IF x < 0 THEN -x ELSE x

\* +(x).toFixed(2): x, in tenths of a cent, to the nearest cent
Round2(x) ==
  LET a == Abs(x)
      r == ((a + (Unit \div 2)) \div Unit) * Unit
  IN IF x < 0 THEN -r ELSE r

\* a || b on text values
OrText(a, b) == IF a # Empty THEN a ELSE b

Range(seq) == {seq[i] : i \in DOMAIN seq}

emptyStore(cashId) ==
  [ currency        |-> "USD",
    incomes         |-> << >>,
    expenses        |-> << >>,
    accounts        |-> << [id |-> cashId, name |-> <<"Cash">>, type |-> "Wallet",
                            balance |-> 0, currency |-> "USD"] >>,
    transfers       |-> << >>,
    accountTxns     |-> << >>,
    projects        |-> << >>,
    projectContribs |-> << >>,
    investments     |-> << >> ]

(***************************************************************************)
(* Account adjust helper                                                   *)
(***************************************************************************)
\* adjust that charges the first account when no account has the id
adjustOrFirst(accounts, accountId, delta) ==
  LET target == IF \E i \in DOMAIN accounts : accounts[i].id = accountId
                THEN accountId
                ELSE IF accounts = << >> THEN accountId ELSE accounts[1].id
  IN [i \in DOMAIN accounts |->
        IF accounts[i].id = target
        THEN [accounts[i] EXCEPT !.balance = Round2(@ + delta)]
        ELSE accounts[i]]

adjust(accounts, accountId, delta) ==
  [i \in DOMAIN accounts |->
     IF accounts[i].id = accountId
     THEN [accounts[i] EXCEPT !.balance = Round2(@ + delta)]
     ELSE accounts[i]]

\* accounts.find((a) => a.id === id)?.name || dflt
accountName(accounts, id, dflt) ==
  IF \E i \in DOMAIN accounts : accounts[i].id = id
  THEN LET i == CHOOSE j \in DOMAIN accounts :
                  /\ accounts[j].id = id
                  /\ \A k \in DOMAIN accounts : accounts[k].id = id => j <= k
       IN OrText(accounts[i].name, <<dflt>>)
  ELSE <<dflt>>

\* s.xs.find((x) => x.id === id)
hasId(seq, id) == \E i \in DOMAIN seq : seq[i].id = id
findById(seq, id) ==
  seq[CHOOSE j \in DOMAIN seq :
        /\ seq[j].id = id
        /\ \A k \in DOMAIN seq : seq[k].id = id => j <= k]

(***************************************************************************)
(* Journal entries                                                         *)
(***************************************************************************)
incomeTxn(inc, id) ==
  [ date |-> inc.date, accountId |-> inc.accountId, type |-> "Deposit",
    amount |-> inc.amount, linkedType |-> "Income", linkedId |-> id,
    notes |-> OrText(inc.source, <<"Income">>),
    transferFromId |-> NoId, transferToId |-> NoId ]

expenseTxn(exp, id) ==
  [ date |-> exp.date, accountId |-> exp.accountId, type |-> "Withdrawal",
    amount |-> exp.amount, linkedType |-> "Expense", linkedId |-> id,
    notes |-> OrText(exp.category, <<"Expense">>),
    transferFromId |-> NoId, transferToId |-> NoId ]

\* the two entries of a transfer, the Withdrawal side first
transferTxns(tr, id, toText, fromText) ==
  << [ date |-> tr.date, accountId |-> tr.fromAccountId, type |-> "Withdrawal",
       amount |-> tr.amount, linkedType |-> "Transfer", linkedId |-> id,
       notes |-> OrText(tr.notes, toText),
       transferFromId |-> tr.fromAccountId, transferToId |-> tr.toAccountId ],
     [ date |-> tr.date, accountId |-> tr.toAccountId, type |-> "Deposit",
       amount |-> tr.amount, linkedType |-> "Transfer", linkedId |-> id,
       notes |-> OrText(tr.notes, fromText),
       transferFromId |-> tr.fromAccountId, transferToId |-> tr.toAccountId ] >>

withId(rec, id) == [f \in (DOMAIN rec) \cup {"id"} |-> IF f = "id" THEN id ELSE rec[f]]

notLinked(txns, linkedType, id) ==
  LET keep(t) == ~(t.linkedType = linkedType /\ t.linkedId = id)
  IN SelectSeq(txns, keep)

withoutId(seq, id) ==
  LET keep(x) == x.id # id
  IN SelectSeq(seq, keep)

replaceById(seq, edited) ==
  [i \in DOMAIN seq |-> IF seq[i].id = edited.id THEN edited ELSE seq[i]]

(***************************************************************************)
(* Income / Expense CRUD: the local (offline) store updates                *)
(***************************************************************************)
addIncomeLocal(s, inc, id) ==
  [s EXCEPT !.incomes = <<withId(inc, id)>> \o @,
            !.accounts = adjust(@, inc.accountId, inc.amount),
            !.accountTxns = <<incomeTxn(inc, id)>> \o @]

delIncomeLocal(s, id) ==
  IF ~hasId(s.incomes, id) THEN s
  ELSE LET income == findById(s.incomes, id)
       IN [s EXCEPT !.accounts = adjust(@, income.accountId, -income.amount),
                    !.accountTxns = notLinked(@, "Income", id),
                    !.incomes = withoutId(@, id)]

addExpenseLocal(s, exp, id) ==
  [s EXCEPT !.expenses = <<withId(exp, id)>> \o @,
            !.accounts = adjust(@, exp.accountId, -exp.amount),
            !.accountTxns = <<expenseTxn(exp, id)>> \o @]

\* delExpense without the credit back to the expense's account
delExpenseKeepsBalance(s, id) ==
  IF ~hasId(s.expenses, id) THEN s
  ELSE [s EXCEPT !.accountTxns = notLinked(@, "Expense", id),
                 !.expenses = withoutId(@, id)]

delExpenseLocal(s, id) ==
  IF ~hasId(s.expenses, id) THEN s
  ELSE LET expense == findById(s.expenses, id)
       IN [s EXCEPT !.accounts = adjust(@, expense.accountId, expense.amount),
                    !.accountTxns = notLinked(@, "Expense", id),
                    !.expenses = withoutId(@, id)]

\* updateIncome with the net delta on the edited account whatever the
\* account of the original
updateIncomeNetOnly(s, edited) ==
  IF ~hasId(s.incomes, edited.id) THEN s
  ELSE LET original == findById(s.incomes, edited.id)
           rewrite(t) ==
             IF t.linkedType = "Income" /\ t.linkedId = edited.id
             THEN [t EXCEPT !.date = edited.date,
                            !.accountId = edited.accountId,
                            !.amount = edited.amount,
                            !.notes = OrText(edited.source, t.notes)]
             ELSE t
       IN [s EXCEPT !.accounts = adjust(@, edited.accountId,
                                        edited.amount - original.amount),
                    !.incomes = replaceById(@, edited),
                    !.accountTxns = [i \in DOMAIN @ |-> rewrite(@[i])]]

updateIncomeLocal(s, edited) ==
  IF ~hasId(s.incomes, edited.id) THEN s
  ELSE LET original == findById(s.incomes, edited.id)
           accounts ==
             IF original.accountId # edited.accountId
             THEN adjust(adjust(s.accounts, original.accountId, -original.amount),
                         edited.accountId, edited.amount)
             ELSE adjust(s.accounts, edited.accountId, edited.amount - original.amount)
           rewrite(t) ==
             IF t.linkedType = "Income" /\ t.linkedId = edited.id
             THEN [t EXCEPT !.date = edited.date,
                            !.accountId = edited.accountId,
                            !.amount = edited.amount,
                            !.notes = OrText(edited.source, t.notes)]
             ELSE t
       IN [s EXCEPT !.accounts = accounts,
                    !.incomes = replaceById(@, edited),
                    !.accountTxns = [i \in DOMAIN @ |-> rewrite(@[i])]]

\* updateExpense that adds the record when the store has none of its id
updateExpenseUpserts(s, edited) ==
  IF ~hasId(s.expenses, edited.id) THEN addExpenseLocal(s, edited, edited.id)
  ELSE LET original == findById(s.expenses, edited.id)
           accounts ==
             IF original.accountId # edited.accountId
             THEN adjust(adjust(s.accounts, original.accountId, original.amount),
                         edited.accountId, -edited.amount)
             ELSE adjust(s.accounts, edited.accountId, -(edited.amount - original.amount))
           rewrite(t) ==
             IF t.linkedType = "Expense" /\ t.linkedId = edited.id
             THEN [t EXCEPT !.date = edited.date,
                            !.accountId = edited.accountId,
                            !.amount = edited.amount,
                            !.notes = OrText(edited.category, t.notes)]
             ELSE t
       IN [s EXCEPT !.accounts = accounts,
                    !.expenses = replaceById(@, edited),
                    !.accountTxns = [i \in DOMAIN @ |-> rewrite(@[i])]]

updateExpenseLocal(s, edited) ==
  IF ~hasId(s.expenses, edited.id) THEN s
  ELSE LET original == findById(s.expenses, edited.id)
           accounts ==
             IF original.accountId # edited.accountId
             THEN adjust(adjust(s.accounts, original.accountId, original.amount),
                         edited.accountId, -edited.amount)
             ELSE adjust(s.accounts, edited.accountId, -(edited.amount - original.amount))
           rewrite(t) ==
             IF t.linkedType = "Expense" /\ t.linkedId = edited.id
             THEN [t EXCEPT !.date = edited.date,
                            !.accountId = edited.accountId,
                            !.amount = edited.amount,
                            !.notes = OrText(edited.category, t.notes)]
             ELSE t
       IN [s EXCEPT !.accounts = accounts,
                    !.expenses = replaceById(@, edited),
                    !.accountTxns = [i \in DOMAIN @ |-> rewrite(@[i])]]

(***************************************************************************)
(* Accounts, projects and contributions: the local store updates           *)
(***************************************************************************)
addAccountLocal(s, acc, id) ==
  [s EXCEPT !.accounts = @ \o <<withId(acc, id)>>]

\* delAccount that also removes the incomes and expenses of the account
delAccountCascades(s, id) ==
  LET keep(x) == x.accountId # id
  IN [s EXCEPT !.accounts = withoutId(@, id),
               !.incomes = SelectSeq(@, keep),
               !.expenses = SelectSeq(@, keep)]

delAccountLocal(s, id) ==
  [s EXCEPT !.accounts = withoutId(@, id)]

addProjectLocal(s, p, id) ==
  [s EXCEPT !.projects = @ \o <<withId(p, id)>>]

\* delProject that drops the contributions of every project
delProjectDropsAll(s, id) ==
  [s EXCEPT !.projects = withoutId(@, id),
            !.projectContribs = << >>]

delProjectLocal(s, id) ==
  LET keep(c) == c.projectId # id
  IN [s EXCEPT !.projects = withoutId(@, id),
               !.projectContribs = SelectSeq(@, keep)]

addProjectContributionLocal(s, pc, id) ==
  [s EXCEPT !.projectContribs = <<withId(pc, id)>> \o @]

delProjectContributionLocal(s, id) ==
  [s EXCEPT !.projectContribs = withoutId(@, id)]

(***************************************************************************)
(* Investments CRUD (affects account if accountId given)                   *)
(***************************************************************************)
\* addInvestment that adds the signed amount to the account
addInvestmentSameSign(s, v, id) ==
  [s EXCEPT !.investments = <<withId(v, id)>> \o @,
            !.accounts = IF v.accountId # NoId
                         THEN adjust(@, v.accountId, v.amount) ELSE @]

addInvestmentLocal(s, v, id) ==
  LET delta == IF v.amount > 0 THEN -Abs(v.amount) ELSE Abs(v.amount)
  IN [s EXCEPT !.investments = <<withId(v, id)>> \o @,
               !.accounts = IF v.accountId # NoId
                            THEN adjust(@, v.accountId, delta) ELSE @]

\* delInvestment that reverses the balance and keeps the record
delInvestmentKeepsRecord(s, id) ==
  IF ~hasId(s.investments, id) THEN s
  ELSE LET v == findById(s.investments, id)
           delta == IF v.amount > 0 THEN v.amount ELSE -v.amount
       IN [s EXCEPT !.accounts = IF v.accountId # NoId
                                 THEN adjust(@, v.accountId, delta) ELSE @]

delInvestmentLocal(s, id) ==
  IF ~hasId(s.investments, id) THEN s
  ELSE LET v == findById(s.investments, id)
           delta == IF v.amount > 0 THEN v.amount ELSE -v.amount
       IN [s EXCEPT !.accounts = IF v.accountId # NoId
                                 THEN adjust(@, v.accountId, delta) ELSE @,
                    !.investments = withoutId(@, id)]

(***************************************************************************)
(* Transfers CRUD + Edit: the local store updates                          *)
(***************************************************************************)
\* the guard without its test of the amount
transferRejectedSameOnly(tr) == tr.fromAccountId = tr.toAccountId

\* the guard at the head of addTransfer
transferRejected(tr) == tr.fromAccountId = tr.toAccountId \/ tr.amount <= 0

\* addTransfer without the credit of the destination account
addTransferDebitOnly(s, tr, id) ==
  LET toName == accountName(s.accounts, tr.toAccountId, "To")
      fromName == accountName(s.accounts, tr.fromAccountId, "From")
  IN [s EXCEPT
        !.transfers = <<withId(tr, id)>> \o @,
        !.accounts = adjust(@, tr.fromAccountId, -tr.amount),
        !.accountTxns = transferTxns(tr, id, <<"Transfer to ">> \o toName,
                                     <<"Transfer from ">> \o fromName) \o @]

addTransferLocal(s, tr, id) ==
  LET fromName == accountName(s.accounts, tr.fromAccountId, "From")
      toName   == accountName(s.accounts, tr.toAccountId, "To")
  IN [s EXCEPT
        !.transfers = <<withId(tr, id)>> \o @,
        !.accounts = adjust(adjust(@, tr.fromAccountId, -tr.amount),
                            tr.toAccountId, tr.amount),
        !.accountTxns = transferTxns(tr, id, <<"Transfer to ">> \o toName,
                                     <<"Transfer from ">> \o fromName) \o @]

\* delTransfer without the debit of the destination account
delTransferCreditOnly(s, id) ==
  IF ~hasId(s.transfers, id) THEN s
  ELSE LET tr == findById(s.transfers, id)
       IN [s EXCEPT !.accounts = adjust(@, tr.fromAccountId, tr.amount),
                    !.accountTxns = notLinked(@, "Transfer", id),
                    !.transfers = withoutId(@, id)]

delTransferLocal(s, id) ==
  IF ~hasId(s.transfers, id) THEN s
  ELSE LET tr == findById(s.transfers, id)
       IN [s EXCEPT !.accounts = adjust(adjust(@, tr.fromAccountId, tr.amount),
                                        tr.toAccountId, -tr.amount),
                    !.accountTxns = notLinked(@, "Transfer", id),
                    !.transfers = withoutId(@, id)]

\* updateTransfer that leaves the journal entries on their accounts
updateTransferKeepsSides(s, edited) ==
  IF ~hasId(s.transfers, edited.id) THEN s
  ELSE LET original == findById(s.transfers, edited.id)
           reverted == adjust(adjust(s.accounts, original.fromAccountId, original.amount),
                              original.toAccountId, -original.amount)
           accounts == adjust(adjust(reverted, edited.fromAccountId, -edited.amount),
                              edited.toAccountId, edited.amount)
           rewrite(t) ==
             IF t.linkedType = "Transfer" /\ t.linkedId = edited.id
             THEN [t EXCEPT !.date = edited.date, !.amount = edited.amount,
                            !.transferFromId = edited.fromAccountId,
                            !.transferToId = edited.toAccountId]
             ELSE t
       IN [s EXCEPT !.accounts = accounts,
                    !.transfers = replaceById(@, edited),
                    !.accountTxns = [i \in DOMAIN @ |-> rewrite(@[i])]]

updateTransferLocal(s, edited) ==
  IF ~hasId(s.transfers, edited.id) THEN s
  ELSE LET original == findById(s.transfers, edited.id)
           reverted == adjust(adjust(s.accounts, original.fromAccountId, original.amount),
                              original.toAccountId, -original.amount)
           accounts == adjust(adjust(reverted, edited.fromAccountId, -edited.amount),
                              edited.toAccountId, edited.amount)
           fromName == accountName(s.accounts, edited.fromAccountId, "From")
           toName   == accountName(s.accounts, edited.toAccountId, "To")
           rewrite(t) ==
             IF t.linkedType = "Transfer" /\ t.linkedId = edited.id
             THEN LET isFromSide == t.type = "Withdrawal"
                  IN [t EXCEPT
                        !.date = edited.date,
                        !.accountId = IF isFromSide THEN edited.fromAccountId
                                      ELSE edited.toAccountId,
                        !.amount = edited.amount,
                        !.notes = OrText(edited.notes,
                                         IF isFromSide THEN <<"Transfer to ">> \o toName
                                         ELSE <<"Transfer from ">> \o fromName),
                        !.transferFromId = edited.fromAccountId,
                        !.transferToId = edited.toAccountId]
             ELSE t
       IN [s EXCEPT !.accounts = accounts,
                    !.transfers = replaceById(@, edited),
                    !.accountTxns = [i \in DOMAIN @ |-> rewrite(@[i])]]

(***************************************************************************)
(* What the forms can submit                                               *)
(***************************************************************************)
Amounts == {1 * Unit, 2 * Unit}
BadAmounts == {0}
InvestmentAmounts == {2 * Unit, -(1 * Unit)}
StartBalances == {5 * Unit}
\* a date with the text typed beside it (a source, a category, a note)
Dated(texts) == {[date |-> Date(2024, 1, 5), text |-> texts[1]],
                 [date |-> Date(2024, 2, 10), text |-> texts[2]]}

accountIds(s) == {s.accounts[i].id : i \in DOMAIN s.accounts}

NoRecurrence ==
  [present |-> FALSE, enabled |-> FALSE, period |-> "monthly", start |-> NoDate,
   end |-> NoDate]

\* CaptureIncome submits only with a source; EditIncomeForm saves whatever
\* the source field holds
IncomeForm(s, sources) ==
  {[date |-> dt.date, source |-> dt.text, amount |-> amt, accountId |-> acc,
    notes |-> Empty] :
     dt \in Dated(sources), amt \in Amounts, acc \in accountIds(s)}

IncomeInputs(s) == IncomeForm(s, <<<<"Salary">>, <<"Salary">>>>)

IncomeEdits(s) == IncomeForm(s, <<<<"Salary">>, Empty>>)

\* CaptureExpense submits only with a category; EditExpenseForm saves
\* whatever the category field holds
ExpenseForm(s, categories) ==
  {[date |-> dt.date, category |-> dt.text, amount |-> amt, accountId |-> acc,
    isRecurring |-> FALSE, recurrence |-> NoRecurrence, notes |-> Empty] :
     dt \in Dated(categories), amt \in Amounts, acc \in accountIds(s)}

ExpenseInputs(s) == ExpenseForm(s, <<<<"Rent">>, <<"Rent">>>>)

ExpenseEdits(s) == ExpenseForm(s, <<<<"Rent">>, Empty>>)

\* transfers between two different accounts, and the two kinds the guard of
\* addTransfer refuses: an account to itself, and an amount that is not positive
TransferInputs(s) ==
  LET pairs == {p \in accountIds(s) \X accountIds(s) : p[1] # p[2]}
  IN {[date |-> dt.date, fromAccountId |-> p[1], toAccountId |-> p[2], amount |-> amt,
       notes |-> dt.text] :
        dt \in Dated(<<Empty, <<"Move">>>>), p \in pairs, amt \in Amounts}
     \cup
     {[date |-> Date(2024, 1, 5), fromAccountId |-> a, toAccountId |-> a,
       amount |-> 1 * Unit, notes |-> Empty] : a \in accountIds(s)}
     \cup
     {[date |-> Date(2024, 1, 5), fromAccountId |-> p[1], toAccountId |-> p[2],
       amount |-> amt, notes |-> Empty] : p \in pairs, amt \in BadAmounts}

InvestmentInputs(s) ==
  {[date |-> Date(2024, 1, 5), instrument |-> <<"MMF">>, amount |-> amt,
    accountId |-> acc, notes |-> Empty] :
     amt \in InvestmentAmounts, acc \in accountIds(s) \cup {NoId}}

AccountInputs ==
  [name : {<<"Bank">>}, type : {"Bank"}, balance : StartBalances, currency : {"USD"}]

idsOf(seq) == {seq[i].id : i \in DOMAIN seq}

cloudMode == cloudOn /\ workspaceId # NoId

(***************************************************************************)
(* The hosted backend (lib/supa-helpers.ts)                                *)
(***************************************************************************)
\* "YYYY-MM-DD" strings compare as their (year, month, day) triples
dateNum(d) == d.y * 10000 + d.m * 100 + d.d

\* a stable insertion of the pair p = <<key, row>> into pairs sorted descending
RECURSIVE insertDesc(_, _)
insertDesc(pairs, p) ==
  IF pairs = << >> THEN <<p>>
  ELSE IF Head(pairs)[1] >= p[1] THEN <<Head(pairs)>> \o insertDesc(Tail(pairs), p)
       ELSE <<p>> \o pairs

RECURSIVE sortDescPairs(_)
sortDescPairs(pairs) ==
  IF pairs = << >> THEN << >>
  ELSE insertDesc(sortDescPairs(SubSeq(pairs, 1, Len(pairs) - 1)), pairs[Len(pairs)])

\* rows ordered by key(row), descending, rows of equal key in their given order
sortDesc(rows, key(_)) ==
  LET sorted == sortDescPairs([i \in DOMAIN rows |-> <<key(rows[i]), rows[i]>>])
  IN [i \in DOMAIN sorted |-> sorted[i][2]]

sortAsc(rows, key(_)) ==
  LET neg(r) == -key(r)
  IN sortDesc(rows, neg)

emptyCloud ==
  [ accounts |-> << >>, transactions |-> << >>, transfers |-> << >>,
    investments |-> << >>, projects |-> << >>, project_contributions |-> << >> ]

listAccountsSupabase(c) == c.accounts
listTransactionsSupabase(c) ==
  LET key(r) == dateNum(r.trx_date) IN sortDesc(c.transactions, key)
listTransfersSupabase(c) ==
  LET key(r) == dateNum(r.trx_date) IN sortDesc(c.transfers, key)
listInvestmentsSupabase(c) ==
  LET key(r) == dateNum(r.inv_date) IN sortDesc(c.investments, key)
listProjectsSupabase(c) ==
  LET key(r) == dateNum(r.target_date) IN sortAsc(c.projects, key)
listProjectContributionsSupabase(c) ==
  LET key(r) == dateNum(r.date) IN sortDesc(c.project_contributions, key)

\* insert: the backend assigns the row's id
insertRow(table, row, id) == table \o <<withId(row, id)>>
deleteRow(table, id) == withoutId(table, id)
\* update(patch).eq("id", id): the patched columns of the matching rows
updateRow(table, id, patch) ==
  [i \in DOMAIN table |->
     IF table[i].id = id
     THEN [f \in DOMAIN table[i] |->
             IF f \in DOMAIN patch THEN patch[f] ELSE table[i][f]]
     ELSE table[i]]

(***************************************************************************)
(* Hydrate core data from the backend: the store built from the list rows  *)
(***************************************************************************)
\* the six list calls of one refresh
listAll(c) ==
  [ acctRows    |-> listAccountsSupabase(c),
    txRows      |-> listTransactionsSupabase(c),
    trRows      |-> listTransfersSupabase(c),
    invRows     |-> listInvestmentsSupabase(c),
    projRows    |-> listProjectsSupabase(c),
    contribRows |-> listProjectContributionsSupabase(c) ]

mapSeq(seq, f(_)) == [i \in DOMAIN seq |-> f(seq[i])]

accountsCloud(rows) ==
  LET conv(a) == [id |-> a.id, name |-> a.name, type |-> a.type,
                  currency |-> IF a.currency = "KSH" THEN "KSH" ELSE "USD",
                  balance |-> a.balance]
  IN mapSeq(rows.acctRows, conv)

incomesCloud(rows) ==
  LET pos(r) == r.amount > 0
      conv(r) == [id |-> r.id, date |-> r.trx_date, source |-> r.description,
                  amount |-> r.amount, accountId |-> r.account_id, notes |-> Empty]
  IN mapSeq(SelectSeq(rows.txRows, pos), conv)

expensesCloud(rows) ==
  LET neg(r) == r.amount < 0
      conv(r) == [id |-> r.id, date |-> r.trx_date, category |-> r.description,
                  amount |-> Abs(r.amount), isRecurring |-> FALSE,
                  recurrence |-> NoRecurrence, accountId |-> r.account_id,
                  notes |-> Empty]
  IN mapSeq(SelectSeq(rows.txRows, neg), conv)

transfersCloud(rows) ==
  LET conv(r) == [id |-> r.id, date |-> r.trx_date, fromAccountId |-> r.from_account_id,
                  toAccountId |-> r.to_account_id, amount |-> r.amount,
                  notes |-> r.notes]
  IN mapSeq(rows.trRows, conv)

investmentsCloud(rows) ==
  LET conv(r) == [id |-> r.id, date |-> r.inv_date, instrument |-> r.instrument,
                  amount |-> r.amount, accountId |-> r.account_id, notes |-> r.notes]
  IN mapSeq(rows.invRows, conv)

projectsCloud(rows) ==
  LET conv(r) == [id |-> r.id, name |-> r.name, targetAmount |-> r.target_amount,
                  targetDate |-> r.target_date, notes |-> r.notes]
  IN mapSeq(rows.projRows, conv)

projectContribsCloud(rows) ==
  LET conv(r) == [id |-> r.id, projectId |-> r.project_id, date |-> r.date,
                  amount |-> r.amount]
  IN mapSeq(rows.contribRows, conv)

mergeById(cloudRows, localRows) ==
  LET ids == idsOf(cloudRows)
      keep(x) == x.id \notin ids
  IN cloudRows \o SelectSeq(localRows, keep)

RECURSIVE flatten(_)
flatten(seqs) == IF seqs = << >> THEN << >> ELSE Head(seqs) \o flatten(Tail(seqs))

\* the journal derived from the merged collections, newest date first
derivedTxns(incomes, expenses, transfers, investments) ==
  LET ofIncome(i) == incomeTxn(i, i.id)
      ofExpense(e) == expenseTxn(e, e.id)
      ofTransfer(x) == transferTxns(x, x.id, <<"Transfer">>, <<"Transfer">>)
      linked(v) == v.accountId # NoId
      ofInvestment(v) ==
        [ date |-> v.date, accountId |-> v.accountId,
          type |-> IF v.amount > 0 THEN "Withdrawal" ELSE "Deposit",
          amount |-> Abs(v.amount), linkedType |-> "Expense", linkedId |-> v.id,
          notes |-> OrText(v.instrument, <<"Investment">>),
          transferFromId |-> NoId, transferToId |-> NoId ]
      key(x) == dateNum(x.date)
  IN sortDesc(mapSeq(incomes, ofIncome) \o mapSeq(expenses, ofExpense)
                \o flatten(mapSeq(transfers, ofTransfer))
                \o mapSeq(SelectSeq(investments, linked), ofInvestment), key)

RECURSIVE sumSeq(_)
sumSeq(nums) == IF nums = << >> THEN 0 ELSE Head(nums) + sumSeq(Tail(nums))

\* "derive balances from activity": every account's balance from zero
derivedAccounts(accounts, incomes, expenses, transfers, investments) ==
  LET total(id) ==
        LET ofIncome(i) == IF i.accountId = id THEN i.amount ELSE 0
            ofExpense(e) == IF e.accountId = id THEN -e.amount ELSE 0
            ofTransfer(x) == (IF x.fromAccountId = id THEN -x.amount ELSE 0)
                             + (IF x.toAccountId = id THEN x.amount ELSE 0)
            ofInvestment(v) ==
              IF v.accountId # NoId /\ v.accountId = id
              THEN (IF v.amount > 0 THEN -Abs(v.amount) ELSE Abs(v.amount))
              ELSE 0
        IN sumSeq(mapSeq(incomes, ofIncome)) + sumSeq(mapSeq(expenses, ofExpense))
           + sumSeq(mapSeq(transfers, ofTransfer))
           + sumSeq(mapSeq(investments, ofInvestment))
  IN [i \in DOMAIN accounts |->
        [accounts[i] EXCEPT !.balance = Round2(total(accounts[i].id))]]

\* the setStore of hydrateFromSupabase: prev is the store it is applied to,
\* rows the list results, derive the deriveBalances the call closed over
hydrateStore(prev, rows, derive) ==
  LET accounts == mergeById(accountsCloud(rows), prev.accounts)
      incomes == mergeById(incomesCloud(rows), prev.incomes)
      expenses == mergeById(expensesCloud(rows), prev.expenses)
      transfers == mergeById(transfersCloud(rows), prev.transfers)
      investments == mergeById(investmentsCloud(rows), prev.investments)
      projects == mergeById(projectsCloud(rows), prev.projects)
      projectContribs == mergeById(projectContribsCloud(rows), prev.projectContribs)
  IN [prev EXCEPT
        !.accounts = IF derive
                     THEN derivedAccounts(accounts, incomes, expenses, transfers,
                                          investments)
                     ELSE accounts,
        !.incomes = incomes,
        !.expenses = expenses,
        !.transfers = transfers,
        !.investments = investments,
        !.projects = projects,
        !.projectContribs = projectContribs,
        !.accountTxns = derivedTxns(incomes, expenses, transfers, investments)]

(***************************************************************************)
(* Asynchronous calls in cloud mode.  A task is one async function in      *)
(* flight: op and arg are the handler and its argument, pc the await it is *)
(* suspended at, accts and derive the store.accounts and deriveBalances of *)
(* the render whose closure it runs in, todo the local account ids still   *)
(* to resolve with ensureCloudAccountId, ids the resolved ones, rows the   *)
(* list results of its refresh.                                            *)
(***************************************************************************)
NoRows == listAll(emptyCloud)

\* handlers whose async body sits in try/catch and alerts on failure
Alerting == {"addIncome", "addExpense", "addAccount"}

\* the bootstrap effect catches the failure of its calls and warns on the
\* console
failure(op) ==
  IF op \in Alerting THEN "alert"
  ELSE IF op = "bootstrap" THEN "warned" ELSE "unhandled"

newTask(op, arg, todo) ==
  [ op |-> op, arg |-> arg,
    pc |-> IF todo # << >> THEN "ensList"
           ELSE IF op = "refresh" THEN "hydRead" ELSE "write",
    accts |-> store.accounts, derive |-> deriveBalances,
    todo |-> todo, ids |-> << >>, rows |-> NoRows ]

\* handlers whose async body inserts rows
Inserting == {"addIncome", "addExpense", "addAccount", "addInvestment", "addTransfer",
              "addProject", "addProjectContribution"}

\* an async function starts: it runs up to its first await
spawn(op, arg, todo) ==
  /\ Len(tasks) < MaxTasks
  /\ op \in Inserting => nextId <= MaxCloudIds
  /\ IF todo # << >> /\ ~hasId(store.accounts, Head(todo))
     THEN \* ensureCloudAccountId throws "Selected account not found"
          /\ outcome' = failure(op)
          /\ UNCHANGED <<tasks, cloudLoading>>
     ELSE /\ tasks' = Append(tasks, newTask(op, arg, todo))
          /\ cloudLoading' = IF op = "refresh" THEN TRUE ELSE cloudLoading
          /\ UNCHANGED outcome
  /\ UNCHANGED <<store, nextId, cloudOn, workspaceId, selectedMonth, zone, cloud>>

\* the cloud branch of a handler: (async () => { ... })(); return;
cloudCall(op, arg, todo) == spawn(op, arg, todo) /\ UNCHANGED deriveBalances

\* the local branch of a handler: setStore(updater)
localCall(newStore, idsUsed) ==
  /\ store' = newStore
  /\ nextId' = nextId + idsUsed
  /\ UNCHANGED <<cloudOn, workspaceId, selectedMonth, zone, deriveBalances, cloudLoading, cloud, tasks,
                 outcome>>

\* ids handed out so far
usedIds == 1 .. (nextId - 1)

\* the ids a delete or an edit is tried on: those of the collection, and one
\* handed out earlier that is not (or no longer) in it
idsTried(seq) ==
  idsOf(seq) \cup (IF usedIds \subseteq idsOf(seq) THEN {}
                   ELSE {CHOOSE i \in usedIds : i \notin idsOf(seq)})

(***************************************************************************)
(* The handlers of the page, each with its cloud and its local branch.     *)
(* last names the handler that ran and how its call went: "ok",            *)
(* "rejected" (a transfer refused by validation), "missing" (no record of  *)
(* that id), "same" or "moved" (an edit that keeps or changes the account  *)
(* of the record; for a transfer, either of its accounts).                 *)
(***************************************************************************)
called(op, info) == last' = [op |-> op, info |-> info] /\ UNCHANGED dbVars

\* the edits tried on id: every input for a record of the collection, one
\* input (an edit of a missing id does not read its fields) otherwise
editInputs(seq, id, inputs) ==
  IF hasId(seq, id) \/ inputs = {} THEN inputs ELSE {CHOOSE x \in inputs : TRUE}

hitInfo(seq, id) == IF hasId(seq, id) THEN "ok" ELSE "missing"

editInfo(seq, edited) ==
  IF ~hasId(seq, edited.id) THEN "missing"
  ELSE IF findById(seq, edited.id).accountId = edited.accountId THEN "same"
       ELSE "moved"

addIncomeCall(inc) ==
  /\ called("addIncome", "ok")
  /\ IF cloudMode
     THEN cloudCall("addIncome", inc, <<inc.accountId>>)
     ELSE /\ nextId <= MaxIds
          /\ localCall(addIncomeLocal(store, inc, nextId), 1)

addIncome == \E inc \in IncomeInputs(store) : addIncomeCall(inc)

delIncomeCall(id) ==
  /\ called("delIncome", hitInfo(store.incomes, id))
  /\ IF cloudMode
     THEN cloudCall("delIncome", id, << >>)
     ELSE localCall(delIncomeLocal(store, id), 0)

delIncome == \E id \in idsTried(store.incomes) : delIncomeCall(id)

updateIncomeCall(edited) ==
  /\ called("updateIncome", editInfo(store.incomes, edited))
  /\ IF cloudMode
     THEN cloudCall("updateIncome", edited, << >>)
     ELSE localCall(updateIncomeLocal(store, edited), 0)

updateIncome ==
  \E id \in idsTried(store.incomes) : \E inc \in editInputs(store.incomes, id, IncomeEdits(store)) :
    updateIncomeCall(withId(inc, id))

addExpenseCall(exp) ==
  /\ called("addExpense", "ok")
  /\ IF cloudMode
     THEN cloudCall("addExpense", exp, <<exp.accountId>>)
     ELSE /\ nextId <= MaxIds
          /\ localCall(addExpenseLocal(store, exp, nextId), 1)

addExpense == \E exp \in ExpenseInputs(store) : addExpenseCall(exp)

delExpenseCall(id) ==
  /\ called("delExpense", hitInfo(store.expenses, id))
  /\ IF cloudMode
     THEN cloudCall("delExpense", id, << >>)
     ELSE localCall(delExpenseLocal(store, id), 0)

delExpense == \E id \in idsTried(store.expenses) : delExpenseCall(id)

updateExpenseCall(edited) ==
  /\ called("updateExpense", editInfo(store.expenses, edited))
  /\ IF cloudMode
     THEN cloudCall("updateExpense", edited, << >>)
     ELSE localCall(updateExpenseLocal(store, edited), 0)

updateExpense ==
  \E id \in idsTried(store.expenses) : \E exp \in editInputs(store.expenses, id, ExpenseEdits(store)) :
    updateExpenseCall(withId(exp, id))

addAccountCall(acc) ==
  /\ called("addAccount", "ok")
  /\ Len(store.accounts) < MaxAccounts
  /\ IF cloudMode
     THEN cloudCall("addAccount", acc, << >>)
     ELSE /\ nextId <= MaxIds
          /\ localCall(addAccountLocal(store, acc, nextId), 1)

addAccount == \E acc \in AccountInputs : addAccountCall(acc)

\* delAccount has no cloud branch
delAccountCall(id) ==
  /\ called("delAccount", "ok")
  /\ localCall(delAccountLocal(store, id), 0)

delAccount == \E id \in accountIds(store) : delAccountCall(id)

addInvestmentCall(v) ==
  /\ called("addInvestment", IF v.accountId = NoId THEN "unlinked" ELSE "ok")
  /\ IF cloudMode
     THEN cloudCall("addInvestment", v, << >>)
     ELSE /\ nextId <= MaxIds
          /\ localCall(addInvestmentLocal(store, v, nextId), 1)

addInvestment == \E v \in InvestmentInputs(store) : addInvestmentCall(v)

delInvestmentCall(id) ==
  /\ called("delInvestment", hitInfo(store.investments, id))
  /\ IF cloudMode
     THEN cloudCall("delInvestment", id, << >>)
     ELSE localCall(delInvestmentLocal(store, id), 0)

delInvestment == \E id \in idsTried(store.investments) : delInvestmentCall(id)

addTransferCall(tr) ==
  /\ called("addTransfer", IF transferRejected(tr) THEN "rejected" ELSE "ok")
  /\ IF transferRejected(tr)
     THEN UNCHANGED <<store, nextId, cloudOn, workspaceId, selectedMonth, zone, deriveBalances,
                      cloudLoading, cloud, tasks, outcome>>
     ELSE IF cloudMode
          THEN cloudCall("addTransfer", tr, <<tr.fromAccountId, tr.toAccountId>>)
          ELSE /\ nextId <= MaxIds
               /\ localCall(addTransferLocal(store, tr, nextId), 1)

addTransfer == \E tr \in TransferInputs(store) : addTransferCall(tr)

delTransferCall(id) ==
  /\ called("delTransfer", hitInfo(store.transfers, id))
  /\ IF cloudMode
     THEN cloudCall("delTransfer", id, << >>)
     ELSE localCall(delTransferLocal(store, id), 0)

delTransfer == \E id \in idsTried(store.transfers) : delTransferCall(id)

transferEditInfo(seq, edited) ==
  IF ~hasId(seq, edited.id) THEN "missing"
  ELSE LET original == findById(seq, edited.id)
       IN IF /\ original.fromAccountId = edited.fromAccountId
             /\ original.toAccountId = edited.toAccountId
          THEN "same" ELSE "moved"

updateTransferCall(edited) ==
  /\ called("updateTransfer", transferEditInfo(store.transfers, edited))
  /\ IF cloudMode
     THEN cloudCall("updateTransfer", edited, << >>)
     ELSE localCall(updateTransferLocal(store, edited), 0)

updateTransfer ==
  \E id \in idsTried(store.transfers) : \E tr \in editInputs(store.transfers, id, TransferInputs(store)) :
    updateTransferCall(withId(tr, id))

(***************************************************************************)
(* The page in local mode                                                  *)
(***************************************************************************)
\* the store as the page loads it: the one an earlier session saved, here
\* the empty store's Cash account and a Bank account added to it
(***************************************************************************)
(* Projects / goals: the handlers of the Projects tab.                     *)
(***************************************************************************)
MaxGoalIds == 6    \* ids mkId hands out on the Projects tab

\* one unit of the currency, in the money unit of the model
Whole == 100 * Unit

\* CaptureProject submits only with a name, a target amount and a target date
ProjectInputs ==
  {[name |-> <<"Laptop">>, targetAmount |-> amt, targetDate |-> dt, notes |-> Empty] :
     amt \in {1200 * Whole, 1 * Unit}, dt \in {Date(2024, 1, 5), Date(2024, 7, 5)}}

\* CaptureProjectContribution submits only with a project and an amount
ProjectContributionInputs(s) ==
  {[projectId |-> pid, date |-> Date(2024, 1, 5), amount |-> amt] :
     pid \in idsOf(s.projects), amt \in {200 * Whole, 1 * Unit}}

addProjectCall(p) ==
  /\ called("addProject", "ok")
  /\ IF cloudMode
     THEN cloudCall("addProject", p, << >>)
     ELSE /\ nextId <= MaxGoalIds
          /\ localCall(addProjectLocal(store, p, nextId), 1)

addProject == \E p \in ProjectInputs : addProjectCall(p)

delProjectCall(id) ==
  /\ called("delProject", hitInfo(store.projects, id))
  /\ IF cloudMode
     THEN cloudCall("delProject", id, << >>)
     ELSE localCall(delProjectLocal(store, id), 0)

delProject == \E id \in idsOf(store.projects) : delProjectCall(id)

addProjectContributionCall(pc) ==
  /\ called("addProjectContribution", "ok")
  /\ IF cloudMode
     THEN cloudCall("addProjectContribution", pc, << >>)
     ELSE /\ nextId <= MaxGoalIds
          /\ localCall(addProjectContributionLocal(store, pc, nextId), 1)

addProjectContribution ==
  \E pc \in ProjectContributionInputs(store) : addProjectContributionCall(pc)

delProjectContributionCall(id) ==
  /\ called("delProjectContribution", hitInfo(store.projectContribs, id))
  /\ IF cloudMode
     THEN cloudCall("delProjectContribution", id, << >>)
     ELSE localCall(delProjectContributionLocal(store, id), 0)

delProjectContribution ==
  \E id \in idsTried(store.projectContribs) : delProjectContributionCall(id)

savedStore ==
  addAccountLocal(emptyStore(1),
                  [name |-> <<"Bank">>, type |-> "Bank", balance |-> 5 * Unit,
                   currency |-> "USD"], 2)

InitLocal ==
  /\ store = savedStore
  /\ nextId = 3
  /\ last = [op |-> "init", info |-> "ok"]
  /\ cloudOn = FALSE
  /\ workspaceId = NoId
  /\ deriveBalances = TRUE
  /\ cloudLoading = FALSE
  /\ cloud = emptyCloud
  /\ tasks = << >>
  /\ outcome = "none"
  /\ selectedMonth = [y |-> 2024, m |-> 1]
  /\ zone = "utc"
  /\ dbClosed

NextLocal ==
  \/ addIncome \/ delIncome \/ updateIncome
  \/ addExpense \/ delExpense \/ updateExpense
  \/ addTransfer \/ delTransfer \/ updateTransfer
  \/ addInvestment \/ delInvestment
  \/ addAccount \/ delAccount

SpecLocal == InitLocal /\ [][NextLocal]_vars

\* the ledger alone: the accounts stay as they are
NextLedger ==
  \/ addIncome \/ delIncome \/ updateIncome
  \/ addExpense \/ delExpense \/ updateExpense
  \/ addTransfer \/ delTransfer \/ updateTransfer
  \/ addInvestment \/ delInvestment

SpecLedger == InitLocal /\ [][NextLedger]_vars

\* transfers added while accounts come and go
NextMoves == addTransfer \/ addAccount \/ delAccount

SpecMoves == InitLocal /\ [][NextMoves]_vars

\* the transfer operations, also after an account was deleted
NextTransferOps == addTransfer \/ delTransfer \/ updateTransfer \/ delAccount

SpecTransferOps == InitLocal /\ [][NextTransferOps]_vars

\* a store with an income, an expense and a transfer that earlier calls of
\* addIncome, addExpense and addTransfer put there
editedStore ==
  LET inc == [date |-> Date(2024, 1, 5), source |-> <<"Salary">>, amount |-> 1 * Unit,
              accountId |-> 1, notes |-> Empty]
      exp == [date |-> Date(2024, 1, 5), category |-> <<"Rent">>, amount |-> 2 * Unit,
              accountId |-> 2, isRecurring |-> FALSE, recurrence |-> NoRecurrence,
              notes |-> Empty]
      tr == [date |-> Date(2024, 2, 10), fromAccountId |-> 2, toAccountId |-> 1,
             amount |-> 1 * Unit, notes |-> Empty]
  IN addTransferLocal(addExpenseLocal(addIncomeLocal(savedStore, inc, 3), exp, 4), tr, 5)

InitEdits ==
  /\ store = editedStore
  /\ nextId = 6
  /\ last = [op |-> "init", info |-> "ok"]
  /\ cloudOn = FALSE
  /\ workspaceId = NoId
  /\ deriveBalances = TRUE
  /\ cloudLoading = FALSE
  /\ cloud = emptyCloud
  /\ tasks = << >>
  /\ outcome = "none"
  /\ selectedMonth = [y |-> 2024, m |-> 1]
  /\ zone = "utc"
  /\ dbClosed

\* the records of the store edited, over and over
NextEdits == updateIncome \/ updateExpense \/ updateTransfer

SpecEdits == InitEdits /\ [][NextEdits]_vars

\* records added and deleted
NextDeletes ==
  \/ addIncome \/ delIncome
  \/ addExpense \/ delExpense
  \/ addTransfer \/ delTransfer
  \/ addInvestment \/ delInvestment

SpecDeletes == InitLocal /\ [][NextDeletes]_vars

(***************************************************************************)
(* Replaying the surviving records                                         *)
(***************************************************************************)
RECURSIVE replayIncomes(_, _)
replayIncomes(s, incomes) ==
  IF incomes = << >> THEN s
  ELSE addIncomeLocal(replayIncomes(s, Tail(incomes)), Head(incomes), Head(incomes).id)

RECURSIVE replayExpenses(_, _)
replayExpenses(s, expenses) ==
  IF expenses = << >> THEN s
  ELSE addExpenseLocal(replayExpenses(s, Tail(expenses)), Head(expenses),
                       Head(expenses).id)

RECURSIVE replayTransfers(_, _)
replayTransfers(s, transfers) ==
  IF transfers = << >> THEN s
  ELSE LET before == replayTransfers(s, Tail(transfers))
       IN IF transferRejected(Head(transfers)) THEN before
          ELSE addTransferLocal(before, Head(transfers), Head(transfers).id)

\* the store with the accounts of s and none of its records
cleared(s) ==
  [s EXCEPT !.incomes = << >>, !.expenses = << >>, !.transfers = << >>,
            !.investments = << >>, !.accountTxns = << >>]

\* addIncome, addExpense and addTransfer of the records of s, oldest first
replayed(s) ==
  replayTransfers(replayExpenses(replayIncomes(cleared(s), s.incomes), s.expenses),
                  s.transfers)

sameJournal(a, b) == Len(a) = Len(b) /\ Range(a) = Range(b)

validTransfers(s) == \A i \in DOMAIN s.transfers : ~transferRejected(s.transfers[i])

(***************************************************************************)
(* C1: in local mode, after any sequence of add, update and delete of      *)
(* incomes, expenses and transfers, the journal (entries compared on all   *)
(* their fields but their own ids) is the journal obtained by adding the   *)
(* surviving incomes, expenses and transfers to an empty store.  Stated    *)
(* for the stores all of whose transfers pass the validation of            *)
(* addTransfer, so that the replay can add each of them.                   *)
(***************************************************************************)
C1_JournalDerivable ==
  validTransfers(store) => sameJournal(store.accountTxns, replayed(store).accountTxns)

C5_UpdateIsDeleteThenAdd ==
  [][/\ last'.op = "updateIncome" =>
        \A id \in idsOf(store.incomes) \cap idsOf(store'.incomes) :
          LET edited == findById(store'.incomes, id)
          IN (updateIncomeCall(edited) /\ ~cloudMode) =>
               store'.accounts =
                 addIncomeLocal(delIncomeLocal(store, id), edited, nextId).accounts
     /\ last'.op = "updateExpense" =>
        \A id \in idsOf(store.expenses) \cap idsOf(store'.expenses) :
          LET edited == findById(store'.expenses, id)
          IN (updateExpenseCall(edited) /\ ~cloudMode) =>
               store'.accounts =
                 addExpenseLocal(delExpenseLocal(store, id), edited, nextId).accounts
     /\ last'.op = "updateTransfer" =>
        \A id \in idsOf(store.transfers) \cap idsOf(store'.transfers) :
          LET edited == findById(store'.transfers, id)
          IN (updateTransferCall(edited) /\ ~cloudMode /\ ~transferRejected(edited)) =>
               store'.accounts =
                 addTransferLocal(delTransferLocal(store, id), edited, nextId).accounts
    ]_vars

C5_Witness ==
  /\ last = [op |-> "updateIncome", info |-> "moved"]
  /\ ~cloudMode
  /\ \E i \in DOMAIN store.accounts :
       store.accounts[i].balance # editedStore.accounts[i].balance

(***************************************************************************)
(* C6: in local mode delIncome, delExpense, delTransfer and delInvestment  *)
(* are idempotent: deleting the id once more leaves the store that the     *)
(* first delete left, and deleting an id that is not in the collection     *)
(* leaves the whole store unchanged.                                       *)
(***************************************************************************)
C6_DeleteIdempotent ==
  [][/\ last'.op = "delIncome" =>
        \A id \in idsTried(store.incomes) :
          (delIncomeCall(id) /\ ~cloudMode) =>
            /\ delIncomeLocal(store', id) = store'
            /\ ~hasId(store.incomes, id) => store' = store
     /\ last'.op = "delExpense" =>
        \A id \in idsTried(store.expenses) :
          (delExpenseCall(id) /\ ~cloudMode) =>
            /\ delExpenseLocal(store', id) = store'
            /\ ~hasId(store.expenses, id) => store' = store
     /\ last'.op = "delTransfer" =>
        \A id \in idsTried(store.transfers) :
          (delTransferCall(id) /\ ~cloudMode) =>
            /\ delTransferLocal(store', id) = store'
            /\ ~hasId(store.transfers, id) => store' = store
     /\ last'.op = "delInvestment" =>
        \A id \in idsTried(store.investments) :
          (delInvestmentCall(id) /\ ~cloudMode) =>
            /\ delInvestmentLocal(store', id) = store'
            /\ ~hasId(store.investments, id) => store' = store
    ]_vars

\* a delete of an id that an earlier delete removed
C6_Witness ==
  /\ last = [op |-> "delInvestment", info |-> "missing"]
  /\ ~cloudMode
  /\ nextId > 3
  /\ store.investments = << >> /\ store.incomes = << >>
  /\ store.expenses = << >> /\ store.transfers = << >>

\* the total of all account balances
total(s) == sumSeq([i \in DOMAIN s.accounts |-> s.accounts[i].balance])

\* both accounts of the transfer are in the store
accountsPresent(s, tr) ==
  hasId(s.accounts, tr.fromAccountId) /\ hasId(s.accounts, tr.toAccountId)

\* the transfer operations in local mode on valid transfers (for an edit,
\* the stored and the edited transfer both valid) whose accounts satisfy ok;
\* the transfer an edit was called with is the one the store holds after it
transferOpsConserve(ok(_, _)) ==
  /\ last'.op = "addTransfer" =>
       \A tr \in TransferInputs(store) :
         (addTransferCall(tr) /\ ~cloudMode /\ ~transferRejected(tr) /\ ok(store, tr)) =>
           total(store') = total(store)
  /\ last'.op = "delTransfer" =>
       \A id \in idsOf(store.transfers) :
         LET t == findById(store.transfers, id)
         IN (delTransferCall(id) /\ ~cloudMode /\ ~transferRejected(t) /\ ok(store, t)) =>
              total(store') = total(store)
  /\ last'.op = "updateTransfer" =>
       \A id \in idsOf(store.transfers) \cap idsOf(store'.transfers) :
         LET t == findById(store.transfers, id)
             edited == findById(store'.transfers, id)
         IN (/\ updateTransferCall(edited) /\ ~cloudMode
             /\ ~transferRejected(t) /\ ~transferRejected(edited)
             /\ ok(store, t) /\ ok(store, edited)) =>
              total(store') = total(store)

(***************************************************************************)
(* C4, as stated: addTransfer, updateTransfer and delTransfer on a         *)
(* transfer between two different accounts with amount > 0 leave the total *)
(* of all account balances unchanged in every reachable state, states      *)
(* reached after accounts were deleted included.                           *)
(***************************************************************************)
C4_TotalConservedAlways ==
  [][LET any(s, tr) == TRUE IN transferOpsConserve(any)]_vars

(***************************************************************************)
(* C4, amended: addTransfer, updateTransfer and delTransfer on a transfer  *)
(* between two different accounts with amount > 0 leave the total of all   *)
(* account balances unchanged whenever the accounts of the transfer (for   *)
(* an edit, of the stored and of the edited transfer) are in the store.    *)
(***************************************************************************)
C4_TotalConserved ==
  [][transferOpsConserve(accountsPresent)]_vars

\* a transfer deleted or edited with both its accounts in the store, after
\* balances have moved
C4_Witness ==
  /\ last.op \in {"delTransfer", "updateTransfer"}
  /\ last.info \in {"ok", "same", "moved"}
  /\ ~cloudMode
  /\ Len(store.accounts) = 2
  /\ store.accounts # savedStore.accounts

(***************************************************************************)
(* The steps of the asynchronous calls: each resumes one task at the await *)
(* it is suspended at.                                                     *)
(***************************************************************************)
withoutTask(i) == SubSeq(tasks, 1, i - 1) \o SubSeq(tasks, i + 1, Len(tasks))

\* ensureCloudAccountId: name + type + currency of the cloud row and the local account
sameAccount(row, local) ==
  row.name = local.name /\ row.type = local.type /\ row.currency = local.currency

found(rows, local) == \E k \in DOMAIN rows : sameAccount(rows[k], local)

\* accts.find(...): the first row that matches
find(rows, local) ==
  rows[CHOOSE k \in DOMAIN rows :
         /\ sameAccount(rows[k], local)
         /\ \A j \in 1 .. (k - 1) : ~sameAccount(rows[j], local)]

\* ensureCloudAccountId returns id: on to the next account, or to the write
resolved(task, id) ==
  [task EXCEPT !.ids = Append(@, id),
               !.todo = Tail(@),
               !.pc = IF Tail(task.todo) = << >> THEN "write" ELSE "ensList"]

\* the task ends by an exception
thrown(i) ==
  /\ tasks' = withoutTask(i)
  /\ outcome' = failure(tasks[i].op)

\* ensureCloudAccountId after its first listAccountsSupabase
EnsureList(i) ==
  LET task == tasks[i]
      accts == listAccountsSupabase(cloud)
  IN /\ task.pc = "ensList"
     /\ called("ensureCloudAccountId", task.op)
     /\ IF ~hasId(task.accts, Head(task.todo))
        THEN thrown(i)
        ELSE LET local == findById(task.accts, Head(task.todo))
             IN /\ tasks' = [tasks EXCEPT ![i] =
                               IF hasId(accts, local.id) THEN resolved(task, local.id)
                               ELSE IF found(accts, local)
                                    THEN resolved(task, find(accts, local).id)
                                    ELSE [task EXCEPT !.pc = "ensAdd"]]
                /\ UNCHANGED outcome
     /\ UNCHANGED <<store, nextId, cloudOn, workspaceId, selectedMonth, zone, deriveBalances, cloudLoading,
                    cloud>>

\* ensureCloudAccountId: addAccountSupabase of the local account
EnsureAdd(i) ==
  LET task == tasks[i]
      local == findById(task.accts, Head(task.todo))
  IN /\ task.pc = "ensAdd"
     /\ called("ensureCloudAccountId", task.op)
     /\ cloud' = [cloud EXCEPT !.accounts =
                    insertRow(@, [name |-> local.name, type |-> local.type,
                                  currency |-> local.currency,
                                  balance |-> local.balance], nextId)]
     /\ nextId' = nextId + 1
     /\ tasks' = [tasks EXCEPT ![i].pc = "ensList2"]
     /\ UNCHANGED <<store, cloudOn, workspaceId, selectedMonth, zone, deriveBalances, cloudLoading, outcome>>

\* ensureCloudAccountId after its second listAccountsSupabase
EnsureRelist(i) ==
  LET task == tasks[i]
      local == findById(task.accts, Head(task.todo))
      accts2 == listAccountsSupabase(cloud)
  IN /\ task.pc = "ensList2"
     /\ called("ensureCloudAccountId", task.op)
     /\ IF found(accts2, local)
        THEN /\ tasks' = [tasks EXCEPT ![i] = resolved(task, find(accts2, local).id)]
             /\ UNCHANGED outcome
        ELSE thrown(i)
     /\ UNCHANGED <<store, nextId, cloudOn, workspaceId, selectedMonth, zone, deriveBalances, cloudLoading,
                    cloud>>

\* the backend after the write of the task, id the id an insert is given
written(task, c, id) ==
  LET a == task.arg
  IN CASE task.op = "addIncome" ->
            [c EXCEPT !.transactions =
               insertRow(@, [account_id |-> task.ids[1], trx_date |-> a.date,
                             amount |-> a.amount, description |-> a.source], id)]
       [] task.op = "addExpense" ->
            [c EXCEPT !.transactions =
               insertRow(@, [account_id |-> task.ids[1], trx_date |-> a.date,
                             amount |-> -Abs(a.amount), description |-> a.category], id)]
       [] task.op \in {"delIncome", "delExpense"} ->
            [c EXCEPT !.transactions = deleteRow(@, a)]
       [] task.op = "updateIncome" ->
            [c EXCEPT !.transactions =
               updateRow(@, a.id, [trx_date |-> a.date, account_id |-> a.accountId,
                                   amount |-> a.amount, description |-> a.source])]
       [] task.op = "updateExpense" ->
            [c EXCEPT !.transactions =
               updateRow(@, a.id, [trx_date |-> a.date, account_id |-> a.accountId,
                                   amount |-> -Abs(a.amount),
                                   description |-> a.category])]
       [] task.op = "addAccount" ->
            [c EXCEPT !.accounts =
               insertRow(@, [name |-> a.name, type |-> a.type, currency |-> a.currency,
                             balance |-> a.balance], id)]
       [] task.op = "addInvestment" ->
            [c EXCEPT !.investments =
               insertRow(@, [account_id |-> a.accountId, inv_date |-> a.date,
                             instrument |-> a.instrument, amount |-> a.amount,
                             notes |-> a.notes], id)]
       [] task.op = "delInvestment" ->
            [c EXCEPT !.investments = deleteRow(@, a)]
       [] task.op = "addTransfer" ->
            [c EXCEPT !.transfers =
               insertRow(@, [trx_date |-> a.date, from_account_id |-> task.ids[1],
                             to_account_id |-> task.ids[2], amount |-> a.amount,
                             notes |-> a.notes], id)]
       [] task.op = "delTransfer" ->
            [c EXCEPT !.transfers = deleteRow(@, a)]
       [] task.op = "updateTransfer" ->
            [c EXCEPT !.transfers =
               updateRow(@, a.id, [trx_date |-> a.date,
                                   from_account_id |-> a.fromAccountId,
                                   to_account_id |-> a.toAccountId,
                                   amount |-> a.amount, notes |-> a.notes])]
       [] task.op = "addProject" ->
            [c EXCEPT !.projects =
               insertRow(@, [name |-> a.name, target_amount |-> a.targetAmount,
                             target_date |-> a.targetDate, notes |-> a.notes], id)]
       [] task.op = "delProject" ->
            [c EXCEPT !.projects = deleteRow(@, a)]
       [] task.op = "addProjectContribution" ->
            [c EXCEPT !.project_contributions =
               insertRow(@, [project_id |-> a.projectId, date |-> a.date,
                             amount |-> a.amount], id)]
       [] task.op = "delProjectContribution" ->
            [c EXCEPT !.project_contributions = deleteRow(@, a)]

\* the write of a handler reaches the backend and its await returns: addIncome
\* puts the income in the store and ends, the others start the refresh
RemoteWrite(i) ==
  LET task == tasks[i]
      rowIds == IF task.op \in Inserting THEN 1 ELSE 0
  IN /\ task.pc = "write"
     /\ called("write", task.op)
     /\ cloud' = written(task, cloud, nextId)
     /\ IF task.op = "addIncome"
        THEN /\ store' = [store EXCEPT !.incomes = <<withId(task.arg, nextId + 1)>> \o @]
             /\ nextId' = nextId + 2
             /\ tasks' = withoutTask(i)
             /\ outcome' = "ok"
             /\ UNCHANGED cloudLoading
        ELSE /\ nextId' = nextId + rowIds
             /\ tasks' = [tasks EXCEPT ![i].pc = "hydRead"]
             /\ cloudLoading' = TRUE
             /\ UNCHANGED <<store, outcome>>
     /\ UNCHANGED <<cloudOn, workspaceId, selectedMonth, zone, deriveBalances>>

\* hydrateFromSupabase: the six list calls return
HydrateRead(i) ==
  /\ tasks[i].pc = "hydRead"
  /\ called("list", tasks[i].op)
  /\ tasks' = [tasks EXCEPT ![i].rows = listAll(cloud), ![i].pc = "hydApply"]
  /\ UNCHANGED <<store, nextId, cloudOn, workspaceId, selectedMonth, zone, deriveBalances, cloudLoading,
                 cloud, outcome>>

\* hydrateFromSupabase: setStore of the merged collections, then finally
HydrateApply(i) ==
  LET task == tasks[i]
  IN /\ task.pc = "hydApply"
     /\ called("hydrate", task.op)
     /\ store' = hydrateStore(store, task.rows, task.derive)
     /\ cloudLoading' = FALSE
     /\ tasks' = withoutTask(i)
     /\ outcome' = "ok"
     /\ UNCHANGED <<nextId, cloudOn, workspaceId, selectedMonth, zone, deriveBalances, cloud>>

\* a failing call of a refresh taken for a refresh that read nothing
RemoteFailReadsNothing(i) ==
  LET task == tasks[i]
  IN /\ task.pc \in {"ensList", "ensAdd", "ensList2", "write", "hydRead"}
     /\ called("failed", task.op)
     /\ thrown(i)
     /\ store' = IF task.pc = "hydRead" THEN hydrateStore(store, NoRows, task.derive)
                 ELSE store
     /\ cloudLoading' = IF task.pc = "hydRead" THEN FALSE ELSE cloudLoading
     /\ cloudOn' = IF task.op = "bootstrap" THEN FALSE ELSE cloudOn
     /\ workspaceId' = IF task.op = "bootstrap" THEN NoId ELSE workspaceId
     /\ UNCHANGED <<nextId, selectedMonth, zone, deriveBalances, cloud>>

\* a call to the backend fails: the helper throws its error
RemoteFail(i) ==
  LET task == tasks[i]
  IN /\ task.pc \in {"ensList", "ensAdd", "ensList2", "write", "hydRead"}
     /\ called("failed", task.op)
     /\ thrown(i)
     /\ cloudLoading' = IF task.pc = "hydRead" THEN FALSE ELSE cloudLoading
     \* "If anything fails, stay in local mode"
     /\ cloudOn' = IF task.op = "bootstrap" THEN FALSE ELSE cloudOn
     /\ workspaceId' = IF task.op = "bootstrap" THEN NoId ELSE workspaceId
     /\ UNCHANGED <<store, nextId, selectedMonth, zone, deriveBalances, cloud>>

\* the "Refresh from cloud" button
refresh ==
  /\ workspaceId # NoId /\ ~cloudLoading
  /\ called("refresh", "ok")
  /\ cloudCall("refresh", NoId, << >>)

(***************************************************************************)
(* The page in cloud mode: signed in, the refresh of the bootstrap effect  *)
(* in flight, the backend of a new workspace                               *)
(***************************************************************************)
TheWorkspace == 1

InitCloud ==
  /\ store = savedStore
  /\ nextId = 3
  /\ last = [op |-> "init", info |-> "ok"]
  /\ cloudOn = TRUE
  /\ workspaceId = TheWorkspace
  /\ deriveBalances = TRUE
  /\ cloudLoading = TRUE
  /\ cloud = emptyCloud
  /\ tasks = <<[op |-> "bootstrap", arg |-> NoId, pc |-> "hydRead", accts |-> savedStore.accounts,
                derive |-> TRUE, todo |-> << >>, ids |-> << >>, rows |-> NoRows]>>
  /\ outcome = "none"
  /\ selectedMonth = [y |-> 2024, m |-> 1]
  /\ zone = "utc"
  /\ dbClosed

ensureList == \E i \in DOMAIN tasks : EnsureList(i)
ensureAdd == \E i \in DOMAIN tasks : EnsureAdd(i)
ensureRelist == \E i \in DOMAIN tasks : EnsureRelist(i)
remoteWrite == \E i \in DOMAIN tasks : RemoteWrite(i)
hydrateRead == \E i \in DOMAIN tasks : HydrateRead(i)
hydrateApply == \E i \in DOMAIN tasks : HydrateApply(i)
remoteFail == \E i \in DOMAIN tasks : RemoteFail(i)

NextCloud ==
  \/ addIncome \/ delIncome
  \/ addExpense \/ delExpense
  \/ addTransfer \/ delTransfer
  \/ addInvestment \/ delInvestment
  \/ refresh
  \/ ensureList \/ ensureAdd \/ ensureRelist
  \/ remoteWrite \/ hydrateRead \/ hydrateApply \/ remoteFail

SpecCloud == InitCloud /\ [][NextCloud]_vars

\* the number of journal entries linked to the record id as linkedType
links(s, linkedType, id) ==
  Cardinality({k \in DOMAIN s.accountTxns :
                 /\ s.accountTxns[k].linkedType = linkedType
                 /\ s.accountTxns[k].linkedId = id})

(***************************************************************************)
(* C2: in every reachable state of the store, in local and in cloud mode,  *)
(* every income has exactly one journal entry linked to it as Income,      *)
(* every expense exactly one linked to it as Expense, and every transfer   *)
(* exactly two linked to it as Transfer.                                   *)
(***************************************************************************)
C2_JournalLinks ==
  /\ \A i \in DOMAIN store.incomes : links(store, "Income", store.incomes[i].id) = 1
  /\ \A i \in DOMAIN store.expenses : links(store, "Expense", store.expenses[i].id) = 1
  /\ \A i \in DOMAIN store.transfers : links(store, "Transfer", store.transfers[i].id) = 2

(***************************************************************************)
(* Transfers made and deleted in either mode                                   *)
(***************************************************************************)
NextTransfers ==
  \/ addTransfer \/ delTransfer
  \/ refresh
  \/ ensureList \/ ensureAdd \/ ensureRelist
  \/ remoteWrite \/ hydrateRead \/ hydrateApply \/ remoteFail

SpecTransfers == (InitLocal \/ InitCloud) /\ [][NextTransfers]_vars

(***************************************************************************)
(* C8: an addTransfer whose source and destination are the same account,   *)
(* or whose amount is not positive, changes nothing: the balances, the     *)
(* journal and the transfers are the same before and after it, and in      *)
(* cloud mode no write goes to the backend (no asynchronous call starts).  *)
(***************************************************************************)
C8_RejectedTransferNoOp ==
  [][last'.op = "addTransfer" =>
     \A tr \in TransferInputs(store) :
       (addTransferCall(tr) /\ (tr.fromAccountId = tr.toAccountId \/ tr.amount <= 0)) =>
         /\ store' = store
         /\ cloud' = cloud
         /\ tasks' = tasks]_vars

\* a refused transfer in cloud mode, with a transfer already in the store
C8_Witness ==
  /\ last = [op |-> "addTransfer", info |-> "rejected"]
  /\ cloudMode
  /\ store.transfers # << >>
  /\ tasks = << >>

(***************************************************************************)
(* Recurring expenses: the months an expense occurs in                     *)
(***************************************************************************)
YM(y, m) == [y |-> y, m |-> m]

\* the "" that ymKey gives for a missing date
NoYM == YM(0, 0)

\* d.slice(0, 7)
ymKey(d) == YM(d.y, d.m)

\* "YYYY-MM" strings compare as their (year, month) pairs, "" below all
ymNum(ym) == ym.y * 100 + ym.m

monthsDiff(a, b) == (b.y - a.y) * 12 + (b.m - a.m)

inRangeMonth(ym, startISO, endISO) ==
  LET sYM == ymKey(startISO)
      eYM == IF endISO # NoDate THEN ymKey(endISO) ELSE NoYM
  IN IF sYM = NoYM THEN FALSE
     ELSE IF eYM # NoYM /\ ymNum(ym) > ymNum(eYM) THEN FALSE
     ELSE ymNum(ym) >= ymNum(sYM)

\* recurrenceOccursThisMonth that does not read the legacy isRecurring
recurrenceOccursNoLegacy(exp, ym) ==
  LET r == exp.recurrence
      enabled == r.present /\ r.enabled
      anchorISO == IF r.present /\ r.start # NoDate THEN r.start ELSE exp.date
      diff == monthsDiff(ymKey(anchorISO), ym)
      period == IF r.present THEN r.period ELSE "monthly"
  IN IF ~enabled THEN FALSE
     ELSE IF ~inRangeMonth(ym, anchorISO, IF r.present THEN r.end ELSE NoDate) THEN FALSE
     ELSE IF diff < 0 THEN FALSE
     ELSE CASE period = "monthly" -> TRUE
            [] period = "quarterly" -> diff % 3 = 0
            [] period = "annually" -> diff % 12 = 0
            [] OTHER -> FALSE

\* recurrenceOccursThisMonth with diff % 4 for a quarterly expense
recurrenceOccursQuarterOfFour(exp, ym) ==
  LET r == exp.recurrence
      enabled == (r.present /\ r.enabled) \/ exp.isRecurring
      anchorISO == IF r.present /\ r.start # NoDate THEN r.start ELSE exp.date
      diff == monthsDiff(ymKey(anchorISO), ym)
      period == IF r.present THEN r.period ELSE "monthly"
  IN IF ~enabled THEN FALSE
     ELSE IF ~inRangeMonth(ym, anchorISO, IF r.present THEN r.end ELSE NoDate) THEN FALSE
     ELSE IF diff < 0 THEN FALSE
     ELSE CASE period = "monthly" -> TRUE
            [] period = "quarterly" -> diff % 4 = 0
            [] period = "annually" -> diff % 12 = 0
            [] OTHER -> FALSE

recurrenceOccursThisMonth(exp, ym) ==
  LET r == exp.recurrence
      enabled == (r.present /\ r.enabled) \/ exp.isRecurring
      anchorISO == IF r.present /\ r.start # NoDate THEN r.start ELSE exp.date
      diff == monthsDiff(ymKey(anchorISO), ym)
      period == IF r.present THEN r.period ELSE "monthly"
  IN IF ~enabled THEN FALSE
     ELSE IF ~inRangeMonth(ym, anchorISO, IF r.present THEN r.end ELSE NoDate) THEN FALSE
     ELSE IF diff < 0 THEN FALSE
     ELSE CASE period = "monthly" -> TRUE
            [] period = "quarterly" -> diff % 3 = 0
            [] period = "annually" -> diff % 12 = 0
            [] OTHER -> FALSE

\* monthKeyFromDate(selectedMonth)
month == selectedMonth

(***************************************************************************)
(* The Expenses tab: real rows and projected recurring rows of the month   *)
(***************************************************************************)
isLeap(y) == (y % 4 = 0 /\ y % 100 # 0) \/ y % 400 = 0

daysIn(y, m) ==
  IF m = 2 THEN (IF isLeap(y) THEN 29 ELSE 28)
  ELSE IF m \in {4, 6, 9, 11} THEN 30 ELSE 31

\* the calendar day before d
dayBefore(d) ==
  IF d.d > 1 THEN Date(d.y, d.m, d.d - 1)
  ELSE IF d.m > 1 THEN Date(d.y, d.m - 1, daysIn(d.y, d.m - 1))
  ELSE Date(d.y - 1, 12, 31)

\* new Date("YYYY-MM-DD").getDate(): the string is midnight UTC, the day is
\* the local one, the day before it west of UTC
getDate(iso, z) == IF z = "west" THEN dayBefore(iso).d ELSE iso.d

\* new Date(y, m, d).toISOString().slice(0, 10): local midnight as a UTC
\* date, the day before it east of UTC
toISODate(d, z) == IF z = "east" THEN dayBefore(d) ELSE d

Min(a, b) == IF a < b THEN a ELSE b

\* `${e.id}__proj__${month}`
projId(id, ym) == [of |-> id, proj |-> ym]

projectedRow(e, ym, z) ==
  [e EXCEPT !.id = projId(e.id, ym),
            !.date = toISODate(Date(ym.y, ym.m, Min(28, getDate(e.date, z))), z),
            \* " - " stands for the bullet the source puts between the two
            !.notes = (IF e.notes # Empty THEN e.notes \o <<" - ">> ELSE Empty)
                      \o <<"(Projected)">>]

\* the signature without the amount
signatureNoAmount(e) == <<e.category, e.accountId>>

signature(e) == <<e.category, e.amount, e.accountId>>

monthExpensesReal(expenses, ym) ==
  LET inMonth(e) == ymKey(e.date) = ym
  IN SelectSeq(expenses, inMonth)

\* monthExpensesProjectedOnly with the test of the expense's own month inverted
monthExpensesProjectedOwnMonth(expenses, ym, z) ==
  LET due(e) == recurrenceOccursThisMonth(e, ym) /\ ymKey(e.date) = ym
      row(e) == projectedRow(e, ym, z)
      projected == mapSeq(SelectSeq(expenses, due), row)
      real == monthExpensesReal(expenses, ym)
      realSig == {signature(real[k]) : k \in DOMAIN real}
      fresh(p) == signature(p) \notin realSig
  IN SelectSeq(projected, fresh)

monthExpensesProjectedOnly(expenses, ym, z) ==
  LET due(e) == recurrenceOccursThisMonth(e, ym) /\ ymKey(e.date) # ym
      row(e) == projectedRow(e, ym, z)
      projected == mapSeq(SelectSeq(expenses, due), row)
      real == monthExpensesReal(expenses, ym)
      realSig == {signature(real[k]) : k \in DOMAIN real}
      fresh(p) == signature(p) \notin realSig
  IN SelectSeq(projected, fresh)

\* real and projected rows of the month, by date
monthExpensesForDisplay(expenses, ym, z) ==
  LET key(e) == dateNum(e.date)
  IN sortAsc(monthExpensesReal(expenses, ym) \o monthExpensesProjectedOnly(expenses, ym, z),
             key)

amountsOf(rows) == [k \in DOMAIN rows |-> rows[k].amount]

incomeThisMonth(incomes, ym) ==
  LET inMonth(i) == ymKey(i.date) = ym
  IN sumSeq(amountsOf(SelectSeq(incomes, inMonth)))

\* the month's total taken over the projected rows too
expenseThisMonthWithProjected(expenses, ym) ==
  sumSeq(amountsOf(monthExpensesReal(expenses, ym)
                   \o monthExpensesProjectedOnly(expenses, ym, "utc")))

expenseThisMonth(expenses, ym) == sumSeq(amountsOf(monthExpensesReal(expenses, ym)))

netThisMonth(s, ym) ==
  Round2(incomeThisMonth(s.incomes, ym) - expenseThisMonth(s.expenses, ym))

\* String(e.id).includes("__proj__"): the id is not one mkId handed out
isProjected(e) == ToString(e.id) \notin {ToString(i) : i \in usedIds}

(***************************************************************************)
(* The Expenses tab of a saved store: one expense of any recurrence, and   *)
(* possibly one more that does not recur, looked at month by month         *)
(***************************************************************************)
FirstMonth == YM(2023, 12)
MaxMonths == 15    \* months the MonthSwitcher is moved over

\* the k-th month after ym
addMonths(ym, k) ==
  LET n == ym.y * 12 + (ym.m - 1) + k
  IN YM(n \div 12, (n % 12) + 1)

Months == {addMonths(FirstMonth, k) : k \in 0 .. (MaxMonths - 1)}

Zones == {"west", "utc", "east"}

RecurrenceInputs ==
  {NoRecurrence} \cup
  [present : {TRUE}, enabled : BOOLEAN, period : {"monthly", "quarterly", "annually"},
   start : {NoDate, Date(2024, 1, 15), Date(2024, 2, 29)},
   end : {NoDate, Date(2024, 7, 20)}]

RecurringInputs ==
  {[date |-> d, category |-> <<"Rent">>, amount |-> 1 * Unit, accountId |-> 1,
    isRecurring |-> b, recurrence |-> r, notes |-> Empty] :
     d \in {Date(2024, 1, 5), Date(2024, 3, 31)}, b \in BOOLEAN, r \in RecurrenceInputs}

\* rows entered by hand in March 2024: one with the signature of the
\* recurring expense, one with another amount
ManualInputs ==
  {[date |-> Date(2024, 3, 10), category |-> <<"Rent">>, amount |-> amt, accountId |-> 1,
    isRecurring |-> FALSE, recurrence |-> NoRecurrence, notes |-> <<"paid">>] :
     amt \in Amounts}

InitExpenses ==
  /\ \E e \in RecurringInputs :
       \/ store = addExpenseLocal(savedStore, e, 3) /\ nextId = 4
       \/ \E r \in ManualInputs :
            /\ store = addExpenseLocal(addExpenseLocal(savedStore, e, 3), r, 4)
            /\ nextId = 5
  /\ last = [op |-> "init", info |-> "ok"]
  /\ cloudOn = FALSE
  /\ workspaceId = NoId
  /\ deriveBalances = TRUE
  /\ cloudLoading = FALSE
  /\ cloud = emptyCloud
  /\ tasks = << >>
  /\ outcome = "none"
  /\ selectedMonth \in Months
  /\ zone \in Zones
  /\ dbClosed

\* the arrows of the MonthSwitcher
switchMonth(k) ==
  /\ addMonths(selectedMonth, k) \in Months
  /\ selectedMonth' = addMonths(selectedMonth, k)
  /\ called("MonthSwitcher", "ok")
  /\ UNCHANGED <<store, nextId, cloudOn, workspaceId, deriveBalances, cloudLoading,
                 cloud, tasks, outcome, zone>>

previousMonth == switchMonth(-1)
nextMonth == switchMonth(1)

NextExpenses == previousMonth \/ nextMonth \/ delExpense

SpecExpenses == InitExpenses /\ [][NextExpenses]_vars

\* the months between two months, as the calendar counts them
monthsBetween(a, b) == (b.y * 12 + b.m) - (a.y * 12 + a.m)

\* an expense recurs in ym, as stated: recurrence on (its own switch or the
\* legacy one), the anchor month (of recurrence.start if it has one, else
\* of the expense's date) not after ym, the end month, if set, not before
\* ym, and the months since the anchor month fitting the period
occursAsStated(e, ym) ==
  LET r == e.recurrence
      on == (r.present /\ r.enabled) \/ e.isRecurring
      anchor == IF r.present /\ r.start # NoDate THEN ymKey(r.start) ELSE ymKey(e.date)
      endSet == r.present /\ r.end # NoDate
      period == IF r.present THEN r.period ELSE "monthly"
      diff == monthsBetween(anchor, ym)
  IN /\ on
     /\ diff >= 0
     /\ endSet => monthsBetween(ym, ymKey(r.end)) >= 0
     /\ \/ period = "monthly"
        \/ period = "quarterly" /\ diff \in {3 * k : k \in 0 .. diff}
        \/ period = "annually" /\ diff \in {12 * k : k \in 0 .. diff}

\* a quarterly expense anchored in January 2024, still running in July
quarterlyFromJan2024(e) ==
  LET r == e.recurrence
  IN /\ r.present /\ r.enabled /\ r.period = "quarterly"
     /\ ymKey(IF r.start # NoDate THEN r.start ELSE e.date) = YM(2024, 1)

(***************************************************************************)
(* C9: recurrenceOccursThisMonth(expense, ym) is true exactly when the     *)
(* recurrence is on (recurrence.enabled or the legacy isRecurring), the    *)
(* anchor month is not after ym, the end month, if set, is not before ym,  *)
(* and the months from the anchor month to ym are any number for a monthly *)
(* expense, a multiple of 3 for a quarterly one, a multiple of 12 for an   *)
(* annual one.  A quarterly expense anchored in 2024-01 occurs in 2024-01, *)
(* 2024-04 and 2024-07, and not in 2024-02 or 2024-03.                     *)
(***************************************************************************)
C9_OccursAsStated ==
  \A i \in DOMAIN store.expenses :
    LET e == store.expenses[i]
    IN /\ recurrenceOccursThisMonth(e, month) <=> occursAsStated(e, month)
       /\ quarterlyFromJan2024(e) =>
            /\ month \in {YM(2024, 1), YM(2024, 4), YM(2024, 7)} =>
                 recurrenceOccursThisMonth(e, month)
            /\ month \in {YM(2024, 2), YM(2024, 3)} =>
                 ~recurrenceOccursThisMonth(e, month)

\* the Expenses tab of April 2024 with a quarterly expense anchored in
\* January 2024 that occurs in it
C9_Witness ==
  /\ last.op = "MonthSwitcher"
  /\ month = YM(2024, 4)
  /\ \E i \in DOMAIN store.expenses :
       /\ quarterlyFromJan2024(store.expenses[i])
       /\ recurrenceOccursThisMonth(store.expenses[i], month)

\* the projected rows of the month made from the expense id
projectedOf(id) ==
  LET rows == monthExpensesProjectedOnly(store.expenses, month, zone)
  IN {k \in DOMAIN rows : rows[k].id = projId(id, month)}

\* a real row of ym with the category, amount and account of e
realTwin(e, ym) ==
  \E k \in DOMAIN store.expenses :
    LET r == store.expenses[k]
    IN /\ ymKey(r.date) = ym
       /\ r.category = e.category /\ r.amount = e.amount /\ r.accountId = e.accountId

(***************************************************************************)
(* C10: for every recurring expense and every month it occurs in: when the *)
(* expense's own date is in that month no projected row is made for it;    *)
(* otherwise, unless a real row of that month has its category, amount and *)
(* account, exactly one projected row is made for it, with its category,   *)
(* amount and account and an id marked as projected.  The monthly Rent     *)
(* dated 2024-01-05 has a projected row in 2024-03 and none in 2024-01.    *)
(***************************************************************************)
C10_ProjectedRows ==
  \A i \in DOMAIN store.expenses :
    LET e == store.expenses[i]
        rows == monthExpensesProjectedOnly(store.expenses, month, zone)
    IN occursAsStated(e, month) =>
         IF ymKey(e.date) = month
         THEN projectedOf(e.id) = {}
         ELSE ~realTwin(e, month) =>
                /\ Cardinality(projectedOf(e.id)) = 1
                /\ \A k \in projectedOf(e.id) :
                     /\ rows[k].category = e.category
                     /\ rows[k].amount = e.amount
                     /\ rows[k].accountId = e.accountId

\* the monthly Rent of 2024-01-05 seen in March 2024, its projected row shown
C10_Witness ==
  /\ last.op = "MonthSwitcher"
  /\ month = YM(2024, 3)
  /\ \E i \in DOMAIN store.expenses :
       LET e == store.expenses[i]
       IN /\ e.category = <<"Rent">> /\ e.date = Date(2024, 1, 5)
          /\ e.isRecurring /\ ~e.recurrence.present
          /\ Cardinality(projectedOf(e.id)) = 1

\* the balances "derive balances from activity" gives the accounts of s
derived(s) ==
  derivedAccounts(s.accounts, s.incomes, s.expenses, s.transfers, s.investments)

(***************************************************************************)
(* C7: after any history of incomes, expenses, transfers and investments   *)
(* on accounts that exist, the balances recomputed from the activity are   *)
(* the balances that addIncome, addExpense, addTransfer and addInvestment  *)
(* left on the same accounts, whatever the balance an account was created  *)
(* with.                                                                   *)
(***************************************************************************)
C7_DerivedIsIncremental ==
  [][last'.op \in {"addIncome", "addExpense", "addTransfer", "addInvestment"} =>
       derived(store') = store'.accounts]_vars

(***************************************************************************)
(* Records added one after another, nothing edited or deleted              *)
(***************************************************************************)
NextAdds == addIncome \/ addExpense \/ addTransfer \/ addInvestment

SpecAdds == InitLocal /\ [][NextAdds]_vars

\* the expense a projected row was made from
sourceOf(row) == findById(store.expenses, row.id.of)

\* the anchor date as stated: recurrence.start when present, else the
\* expense's own date
anchorDate(e) ==
  IF e.recurrence.present /\ e.recurrence.start # NoDate THEN e.recurrence.start
  ELSE e.date

(***************************************************************************)
(* C11: every projected row of the month ym is dated in ym, on the day     *)
(* min(28, day of the anchor date), the anchor date being recurrence.start *)
(* when present and the expense's own date otherwise; the anchor           *)
(* 2024-01-05 projected into 2024-03 is dated 2024-03-05.  Stated of the   *)
(* month the MonthSwitcher was moved to.                                   *)
(***************************************************************************)
C11_ProjectedDate ==
  LET rows == monthExpensesProjectedOnly(store.expenses, month, zone)
  IN last.op = "MonthSwitcher" =>
     \A k \in DOMAIN rows :
       rows[k].date = Date(month.y, month.m, Min(28, anchorDate(sourceOf(rows[k])).d))

(***************************************************************************)
(* C12: addInvestment in local mode with the accountId of an account of    *)
(* the store changes that account's balance by minus the amount when the   *)
(* amount is positive and by plus the absolute amount when it is negative, *)
(* and no other balance; without an accountId no balance changes; the      *)
(* journal is unchanged in all cases.                                      *)
(***************************************************************************)
C12_AddInvestmentMoves ==
  [][last'.op = "addInvestment" =>
     \A v \in InvestmentInputs(store) :
       (addInvestmentCall(v) /\ ~cloudMode) =>
         /\ store'.accountTxns = store.accountTxns
         /\ Len(store'.accounts) = Len(store.accounts)
         /\ \A i \in DOMAIN store.accounts :
              LET a == store.accounts[i]
              IN store'.accounts[i] =
                   [a EXCEPT !.balance =
                      IF v.accountId = NoId \/ a.id # v.accountId THEN a.balance
                      ELSE IF v.amount > 0 THEN a.balance - v.amount
                      ELSE a.balance + Abs(v.amount)]]_vars

\* a withdrawal from an investment just added against an account
C12_Witness ==
  /\ last = [op |-> "addInvestment", info |-> "ok"]
  /\ ~cloudMode
  /\ store.investments # << >>
  /\ Head(store.investments).amount < 0
  /\ hasId(store.accounts, Head(store.investments).accountId)
  /\ store.accountTxns # << >>

(***************************************************************************)
(* C13: updateIncome, updateExpense and updateTransfer called in local     *)
(* mode with a record whose id is not in the collection leave the whole    *)
(* store unchanged.                                                        *)
(***************************************************************************)
C13_UpdateOfMissingIsNoOp ==
  [][/\ last'.op = "updateIncome" =>
        \A id \in idsTried(store.incomes) \ idsOf(store.incomes) :
          \A inc \in editInputs(store.incomes, id, IncomeEdits(store)) :
            (updateIncomeCall(withId(inc, id)) /\ ~cloudMode) => store' = store
     /\ last'.op = "updateExpense" =>
        \A id \in idsTried(store.expenses) \ idsOf(store.expenses) :
          \A exp \in editInputs(store.expenses, id, ExpenseEdits(store)) :
            (updateExpenseCall(withId(exp, id)) /\ ~cloudMode) => store' = store
     /\ last'.op = "updateTransfer" =>
        \A id \in idsTried(store.transfers) \ idsOf(store.transfers) :
          \A tr \in editInputs(store.transfers, id, TransferInputs(store)) :
            (updateTransferCall(withId(tr, id)) /\ ~cloudMode) => store' = store
    ]_vars

\* an edit of an expense under an id the expenses do not hold, in a store
\* with records of all three kinds
C13_Witness ==
  /\ last = [op |-> "updateExpense", info |-> "missing"]
  /\ ~cloudMode
  /\ store.incomes # << >> /\ store.expenses # << >> /\ store.transfers # << >>

\* the records a refresh read from the backend, as hydrateFromSupabase
\* converts them
fromBackend(rows) ==
  [ accounts        |-> accountsCloud(rows),
    incomes         |-> incomesCloud(rows),
    expenses        |-> expensesCloud(rows),
    transfers       |-> transfersCloud(rows),
    investments     |-> investmentsCloud(rows),
    projects        |-> projectsCloud(rows),
    projectContribs |-> projectContribsCloud(rows) ]

\* the refresh that the step ends, if the step ends one
refreshEnding == {i \in DOMAIN tasks : HydrateApply(i)}

(***************************************************************************)
(* C14: when a refresh completes in remote mode, the accounts, incomes,    *)
(* expenses, transfers, investments, projects and contributions of the     *)
(* store are exactly the records its list calls returned (the accounts     *)
(* compared by id, their balance being subject to the derive switch), and  *)
(* the journal is the one derived from those records alone.                *)
(***************************************************************************)
C14_RefreshIsBackend ==
  [][last'.op = "hydrate" =>
     \A i \in refreshEnding :
       LET b == fromBackend(tasks[i].rows)
       IN /\ [k \in DOMAIN store'.accounts |-> store'.accounts[k].id]
               = [k \in DOMAIN b.accounts |-> b.accounts[k].id]
          /\ store'.incomes = b.incomes
          /\ store'.expenses = b.expenses
          /\ store'.transfers = b.transfers
          /\ store'.investments = b.investments
          /\ store'.projects = b.projects
          /\ store'.projectContribs = b.projectContribs
          /\ store'.accountTxns =
               derivedTxns(b.incomes, b.expenses, b.transfers, b.investments)]_vars

\* the incomes of s that read as x does: its date, source and amount
sameIncome(s, x) ==
  {k \in DOMAIN s.incomes :
     /\ s.incomes[k].date = x.date
     /\ s.incomes[k].source = x.source
     /\ s.incomes[k].amount = x.amount}

(***************************************************************************)
(* C15: in remote mode the store that the optimistic update of addIncome   *)
(* leaves agrees with the store after the next refresh: every income of    *)
(* the store is there after the refresh under the same id and no more      *)
(* often than before, and has the journal entries it had before.           *)
(***************************************************************************)
C15_OptimisticIsAuthoritative ==
  [][(last'.op = "hydrate" /\ cloudMode) =>
     \A k \in DOMAIN store.incomes :
       LET x == store.incomes[k]
       IN /\ hasId(store'.incomes, x.id)
          /\ Cardinality(sameIncome(store', x)) = Cardinality(sameIncome(store, x))
          /\ links(store', "Income", x.id) = links(store, "Income", x.id)]_vars

(***************************************************************************)
(* C16: in remote mode a mutator whose remote call fails, and a refresh    *)
(* one of whose list calls fails, leave the store as it was when they were *)
(* invoked: the step at which a call fails leaves the store unchanged, and *)
(* no step of an asynchronous call changes the store but the one that ends *)
(* the call with success.                                                  *)
(***************************************************************************)
C16_FailureLeavesStore ==
  [][/\ last'.op = "failed" => store' = store
     /\ outcome' \in {"alert", "unhandled", "warned"} /\ outcome' # outcome => store' = store
     /\ (cloudMode /\ store' # store) =>
          (outcome' = "ok" /\ Len(tasks') < Len(tasks))]_vars

\* the write of addExpense reached the backend and a list call of the
\* refresh that follows it failed
C16_Witness ==
  /\ last = [op |-> "failed", info |-> "addExpense"]
  /\ outcome = "alert"
  /\ cloud.transactions # << >>
  /\ store.expenses = << >>

(***************************************************************************)
(* A store with records on both accounts, and its accounts deleted         *)
(***************************************************************************)
\* the page in local mode over the saved store s, n the next id of mkId
InitWith(s, n) ==
  /\ store = s
  /\ nextId = n
  /\ last = [op |-> "init", info |-> "ok"]
  /\ cloudOn = FALSE
  /\ workspaceId = NoId
  /\ deriveBalances = TRUE
  /\ cloudLoading = FALSE
  /\ cloud = emptyCloud
  /\ tasks = << >>
  /\ outcome = "none"
  /\ selectedMonth = [y |-> 2024, m |-> 1]
  /\ zone = "utc"
  /\ dbClosed

\* editedStore and an investment that an earlier addInvestment put there
orphanStore ==
  addInvestmentLocal(editedStore,
                     [date |-> Date(2024, 1, 5), instrument |-> <<"MMF">>,
                      amount |-> 2 * Unit, accountId |-> 2, notes |-> Empty], 6)

InitOrphans == InitWith(orphanStore, 7)

NextOrphans ==
  \/ delAccount
  \/ delIncome \/ delExpense \/ delTransfer \/ delInvestment
  \/ updateIncome \/ updateExpense \/ updateTransfer

SpecOrphans == InitOrphans /\ [][NextOrphans]_vars

\* no account of s has this id
orphaned(s, accountId) == ~hasId(s.accounts, accountId)

(***************************************************************************)
(* C17: delAccount removes the account and nothing else: incomes,          *)
(* expenses, transfers, investments and journal entries, those of the      *)
(* deleted account included, and the other accounts stay as they were; a   *)
(* later delete or edit of a record whose account is gone completes: the   *)
(* record and its journal entries are deleted or rewritten, and no account *)
(* appears or disappears.                                                  *)
(***************************************************************************)
C17_DelAccountOnly ==
  [][/\ last'.op = "delAccount" =>
        \A id \in accountIds(store) :
          delAccountCall(id) =>
            /\ ~hasId(store'.accounts, id)
            /\ \A k \in DOMAIN store.accounts :
                 store.accounts[k].id # id =>
                   \E j \in DOMAIN store'.accounts : store'.accounts[j] = store.accounts[k]
            /\ Len(store'.accounts) = Len(store.accounts) - 1
            /\ store'.incomes = store.incomes
            /\ store'.expenses = store.expenses
            /\ store'.transfers = store.transfers
            /\ store'.investments = store.investments
            /\ store'.accountTxns = store.accountTxns
     /\ last'.op = "delIncome" =>
        \A id \in idsOf(store.incomes) :
          (delIncomeCall(id) /\ orphaned(store, findById(store.incomes, id).accountId)) =>
            /\ ~hasId(store'.incomes, id) /\ links(store', "Income", id) = 0
            /\ store'.accounts = store.accounts
     /\ last'.op = "delExpense" =>
        \A id \in idsOf(store.expenses) :
          (delExpenseCall(id) /\ orphaned(store, findById(store.expenses, id).accountId)) =>
            /\ ~hasId(store'.expenses, id) /\ links(store', "Expense", id) = 0
            /\ store'.accounts = store.accounts
     /\ last'.op = "delInvestment" =>
        \A id \in idsOf(store.investments) :
          (/\ delInvestmentCall(id)
           /\ orphaned(store, findById(store.investments, id).accountId)) =>
            /\ ~hasId(store'.investments, id)
            /\ store'.accounts = store.accounts
     /\ last'.op = "delTransfer" =>
        \A id \in idsOf(store.transfers) :
          LET t == findById(store.transfers, id)
          IN (/\ delTransferCall(id)
              /\ orphaned(store, t.fromAccountId) \/ orphaned(store, t.toAccountId)) =>
               /\ ~hasId(store'.transfers, id) /\ links(store', "Transfer", id) = 0
               /\ accountIds(store') = accountIds(store)
               /\ (orphaned(store, t.fromAccountId) /\ orphaned(store, t.toAccountId)) =>
                    store'.accounts = store.accounts
     /\ last'.op = "updateIncome" =>
        \A id \in idsOf(store.incomes) \cap idsOf(store'.incomes) :
          LET edited == findById(store'.incomes, id)
          IN (/\ updateIncomeCall(edited)
              /\ orphaned(store, findById(store.incomes, id).accountId)) =>
               /\ links(store', "Income", id) = 1
               /\ accountIds(store') = accountIds(store)
     /\ last'.op = "updateExpense" =>
        \A id \in idsOf(store.expenses) \cap idsOf(store'.expenses) :
          LET edited == findById(store'.expenses, id)
          IN (/\ updateExpenseCall(edited)
              /\ orphaned(store, findById(store.expenses, id).accountId)) =>
               /\ links(store', "Expense", id) = 1
               /\ accountIds(store') = accountIds(store)
     /\ last'.op = "updateTransfer" =>
        \A id \in idsOf(store.transfers) \cap idsOf(store'.transfers) :
          LET edited == findById(store'.transfers, id)
              t == findById(store.transfers, id)
          IN (/\ updateTransferCall(edited)
              /\ orphaned(store, t.fromAccountId) \/ orphaned(store, t.toAccountId)) =>
               /\ links(store', "Transfer", id) = 2
               /\ accountIds(store') = accountIds(store)
    ]_vars

\* an expense deleted after both accounts were
C17_Witness ==
  /\ last = [op |-> "delExpense", info |-> "ok"]
  /\ store.accounts = << >>
  /\ store.incomes # << >>
  /\ store.accountTxns # << >>

(***************************************************************************)
(* The Projects tab in local mode, on a store with an income on record.    *)
(***************************************************************************)
goalsStore ==
  addIncomeLocal(emptyStore(1),
                 [date |-> Date(2024, 1, 5), source |-> <<"Salary">>, amount |-> 1 * Unit,
                  accountId |-> 1, notes |-> Empty], 2)

InitGoals == InitWith(goalsStore, 3)

NextGoals ==
  \/ addProject \/ delProject
  \/ addProjectContribution \/ delProjectContribution

SpecGoals == InitGoals /\ [][NextGoals]_vars

\* the contributions of s made to this project
contribsOf(s, projectId) ==
  LET mine(c) == c.projectId = projectId
  IN SelectSeq(s.projectContribs, mine)

(***************************************************************************)
(* C18: in local mode delProject removes the project and every             *)
(* contribution made to it, keeps every other project and every            *)
(* contribution made to another project, and, like addProjectContribution  *)
(* and delProjectContribution, leaves the accounts and the journal as they *)
(* were.                                                                   *)
(***************************************************************************)
C18_DelProjectCascades ==
  [][/\ (last'.op = "delProject" /\ ~cloudMode) =>
        \A id \in idsOf(store.projects) :
          delProjectCall(id) =>
            /\ ~hasId(store'.projects, id)
            /\ idsOf(store'.projects) = idsOf(store.projects) \ {id}
            /\ contribsOf(store', id) = << >>
            /\ \A other \in usedIds \ {id} :
                 contribsOf(store', other) = contribsOf(store, other)
            /\ Len(store'.projectContribs) =
                 Len(store.projectContribs) - Len(contribsOf(store, id))
     /\ last'.op \in {"delProject", "addProjectContribution", "delProjectContribution"} =>
        /\ store'.accounts = store.accounts
        /\ store'.accountTxns = store.accountTxns
    ]_vars

\* a goal deleted with its contribution, the contribution to the other left
C18_Witness ==
  /\ last = [op |-> "delProject", info |-> "ok"]
  /\ nextId = 7
  /\ Len(store.projects) = 1
  /\ Len(store.projectContribs) = 1
  /\ contribsOf(store, store.projects[1].id) # << >>
  /\ store.accountTxns # << >>

\* the rows of the Expenses tab that carry Edit and Delete: the real ones
realRows(rows) ==
  LET real(e) == ~isProjected(e)
  IN SelectSeq(rows, real)

\* the month's expense total and net are those of the real rows on display
totalsOfRealRows ==
  LET rows == monthExpensesForDisplay(store.expenses, month, zone)
      realTotal == sumSeq(amountsOf(realRows(rows)))
  IN /\ expenseThisMonth(store.expenses, month) = realTotal
     /\ netThisMonth(store, month) =
          Round2(incomeThisMonth(store.incomes, month) - realTotal)

(***************************************************************************)
(* C19: projected rows touch neither balances nor journal: moving to a     *)
(* month, which recomputes its projection, leaves the store as it was, and *)
(* the month's expense total and net are those of the rows on display that *)
(* are not projected.                                                      *)
(***************************************************************************)
C19_ProjectionIsDisplayOnly ==
  /\ [][last'.op = "MonthSwitcher" => store' = store]_vars
  /\ []totalsOfRealRows

\* a month on display with a real row and a projected one
C19_Witness ==
  LET rows == monthExpensesForDisplay(store.expenses, month, zone)
  IN /\ last.op = "MonthSwitcher"
     /\ realRows(rows) # << >>
     /\ Len(realRows(rows)) < Len(rows)
     /\ store.accountTxns # << >>
(***************************************************************************)
(* Goal funding: projectStats and requiredForGoalsMonthly.  now is the     *)
(* value of new Date() at the render: a calendar day (UTC) and whether the *)
(* clock is past midnight (noon stands for every later time of the day).   *)
(***************************************************************************)
Max(a, b) == IF a > b THEN a ELSE b

\* days from 2023-01-01 to the date
dayNum(d) ==
  LET years == [k \in 1 .. (d.y - 2023) |-> IF isLeap(2022 + k) THEN 366 ELSE 365]
      months == [m \in 1 .. (d.m - 1) |-> daysIn(d.y, m)]
  IN sumSeq(years) + sumSeq(months) + (d.d - 1)

\* Math.ceil(a / b), b positive
ceilDiv(a, b) == -((-a) \div b)

\* new Date(targetDate).getTime() - new Date().getTime(), in tenths of a day:
\* the target date is midnight UTC of its day
tenthsUntil(targetDate, now) ==
  10 * (dayNum(targetDate) - dayNum(now.day)) - (IF now.noon THEN 5 ELSE 0)

\* +(a / b).toFixed(2): a in tenths of a cent, b positive, to the nearest cent
fixed2Div(a, b) ==
  LET cents == (2 * Abs(a) + Unit * b) \div (2 * Unit * b)
  IN IF a < 0 THEN -(cents * Unit) ELSE cents * Unit

contributedTo(s, p) == sumSeq(amountsOf(contribsOf(s, p.id)))

\* remaining without the floor at zero
remainingUnfloored(targetAmount, contributed) == targetAmount - contributed

remainingOf(targetAmount, contributed) == Max(0, targetAmount - contributed)

\* Math.max(1, Math.ceil(ms / (1000 * 60 * 60 * 24 * 30.4)))
monthsLeftOf(targetDate, now) == Max(1, ceilDiv(tenthsUntil(targetDate, now), 304))

projectStats(s, now) ==
  LET stat(p) ==
        LET contributed == contributedTo(s, p)
            remaining == remainingOf(p.targetAmount, contributed)
            monthsLeft == monthsLeftOf(p.targetDate, now)
        IN [project |-> p, contributed |-> contributed, remaining |-> remaining,
            monthsLeft |-> monthsLeft,
            requiredMonthly |-> fixed2Div(remaining, monthsLeft)]
  IN mapSeq(s.projects, stat)

requiredForGoalsMonthly(s, now) ==
  LET stats == projectStats(s, now)
  IN sumSeq([k \in DOMAIN stats |-> stats[k].requiredMonthly])

\* renders before, on and after the target dates of the goals
Nows ==
  [day : {Date(2023, 12, 20), Date(2024, 1, 5), Date(2024, 3, 1), Date(2024, 7, 5),
          Date(2024, 8, 1)},
   noon : BOOLEAN]

\* the funding gap of every goal as stated, but for requiredMonthly
goalGaps(now) ==
  LET stats == projectStats(store, now)
  IN /\ \A k \in DOMAIN stats :
          LET x == stats[k]
          IN /\ x.remaining = Max(0, x.project.targetAmount - x.contributed)
             /\ x.remaining >= 0
             /\ x.monthsLeft >= 1
             /\ (x.project.targetAmount = 1200 * Whole /\ x.contributed = 200 * Whole)
                  => x.remaining = 1000 * Whole
     /\ requiredForGoalsMonthly(store, now) =
          sumSeq([k \in DOMAIN stats |-> stats[k].requiredMonthly])

(***************************************************************************)
(* C20 as stated: for every goal and every time of render, remaining is    *)
(* max(0, target - contributed) and not negative, monthsLeft is at least   *)
(* 1, requiredMonthly is exactly remaining / monthsLeft, and               *)
(* requiredForGoalsMonthly is the sum of requiredMonthly over the goals.   *)
(***************************************************************************)
C20_RequiredIsExactQuotient ==
  \A now \in Nows :
    /\ goalGaps(now)
    /\ \A k \in DOMAIN projectStats(store, now) :
         LET x == projectStats(store, now)[k]
         IN x.requiredMonthly * x.monthsLeft = x.remaining

(***************************************************************************)
(* C20, amended: as above, with requiredMonthly the quotient               *)
(* remaining / monthsLeft rounded to the nearest cent.                     *)
(***************************************************************************)
C20_RequiredIsRoundedQuotient ==
  \A now \in Nows :
    /\ goalGaps(now)
    /\ \A k \in DOMAIN projectStats(store, now) :
         LET x == projectStats(store, now)[k]
         IN /\ x.requiredMonthly % Unit = 0
            /\ 2 * Abs(x.requiredMonthly * x.monthsLeft - x.remaining)
                 <= Unit * x.monthsLeft

\* a goal of 1200 with 200 contributed, six months before its target date,
\* beside a goal whose target date is past
C20_Witness ==
  LET now == [day |-> Date(2024, 3, 1), noon |-> TRUE]
      early == [day |-> Date(2024, 1, 5), noon |-> FALSE]
  IN /\ \E k \in DOMAIN store.projects :
          LET x == projectStats(store, early)[k]
          IN /\ x.project.targetAmount = 1200 * Whole
             /\ x.contributed = 200 * Whole
             /\ x.monthsLeft = 6
             /\ x.requiredMonthly = 16667 * Unit
     /\ \E k \in DOMAIN store.projects :
          LET x == projectStats(store, now)[k]
          IN /\ x.project.targetDate = Date(2024, 1, 5)
             /\ x.monthsLeft = 1
             /\ x.contributed > x.project.targetAmount
             /\ x.remaining = 0
(***************************************************************************)
(* Aggregate by month helper, and the trend data of the dashboard          *)
(***************************************************************************)
\* Array.from(map.keys()).sort(): "YYYY-MM" keys in string order
RECURSIVE sortedKeys(_)
sortedKeys(keys) ==
  IF keys = {} THEN << >>
  ELSE LET first == CHOOSE k \in keys : \A other \in keys : ymNum(k) <= ymNum(other)
       IN <<first>> \o sortedKeys(keys \ {first})

\* monthlyTotals that keeps the first amount of a month, not the sum
monthlyTotalsFirstOnly(rows) ==
  LET keys == {ymKey(rows[k].date) : k \in DOMAIN rows} \ {NoYM}
      sorted == sortedKeys(keys)
      first(ym) == rows[CHOOSE k \in DOMAIN rows :
                          /\ ymKey(rows[k].date) = ym
                          /\ \A j \in 1 .. (k - 1) : ymKey(rows[j].date) # ym].amount
  IN [i \in DOMAIN sorted |-> [month |-> sorted[i], total |-> Round2(first(sorted[i]))]]

monthlyTotals(rows) ==
  LET keys == {ymKey(rows[k].date) : k \in DOMAIN rows} \ {NoYM}
      sorted == sortedKeys(keys)
      sumOf(ym) ==
        LET inMonth(r) == ymKey(r.date) = ym
        IN sumSeq(amountsOf(SelectSeq(rows, inMonth)))
  IN [i \in DOMAIN sorted |-> [month |-> sorted[i], total |-> Round2(sumOf(sorted[i]))]]

incomeByMonth(s) == monthlyTotals(s.incomes)
expenseByMonth(s) == monthlyTotals(s.expenses)
investmentByMonth(s) == monthlyTotals(s.investments)

\* series.find((x) => x.month === m)?.total || 0
totalIn(series, m) ==
  IF \E i \in DOMAIN series : series[i].month = m
  THEN series[CHOOSE i \in DOMAIN series : series[i].month = m].total
  ELSE 0

monthsIn(series) == {series[i].month : i \in DOMAIN series}

\* the trend over the months of the income series alone
mergedTrendOfIncomeMonths(s) ==
  LET months == sortedKeys(monthsIn(incomeByMonth(s)))
  IN [i \in DOMAIN months |->
        [month |-> months[i],
         income |-> totalIn(incomeByMonth(s), months[i]),
         expenses |-> totalIn(expenseByMonth(s), months[i]),
         investments |-> totalIn(investmentByMonth(s), months[i]),
         net |-> totalIn(incomeByMonth(s), months[i])
                 - totalIn(expenseByMonth(s), months[i])]]

mergedTrendRaw(s) ==
  LET months == sortedKeys(monthsIn(incomeByMonth(s)) \cup monthsIn(expenseByMonth(s))
                           \cup monthsIn(investmentByMonth(s)))
  IN [i \in DOMAIN months |->
        [month |-> months[i],
         income |-> totalIn(incomeByMonth(s), months[i]),
         expenses |-> totalIn(expenseByMonth(s), months[i]),
         investments |-> totalIn(investmentByMonth(s), months[i]),
         net |-> totalIn(incomeByMonth(s), months[i])
                 - totalIn(expenseByMonth(s), months[i])]]

\* a saved store with three incomes, an expense and an investment on record
TrendIncomes == {inc \in IncomeInputs(savedStore) : inc.accountId = 1}
TrendExpenses == {exp \in ExpenseInputs(savedStore) : exp.accountId = 1}
TrendInvestments ==
  {[date |-> dt, instrument |-> <<"MMF">>, amount |-> amt, accountId |-> NoId,
    notes |-> Empty] :
     dt \in {Date(2024, 1, 5), Date(2023, 12, 20)}, amt \in InvestmentAmounts}

trendStore(i1, i2, i3, e, v) ==
  LET incomes == addIncomeLocal(addIncomeLocal(addIncomeLocal(savedStore, i1, 3), i2, 4),
                                i3, 5)
  IN addInvestmentLocal(addExpenseLocal(incomes, e, 6), v, 7)

InitTrend ==
  \E i1 \in TrendIncomes, i2 \in TrendIncomes, i3 \in TrendIncomes,
     e \in TrendExpenses, v \in TrendInvestments :
    InitWith(trendStore(i1, i2, i3, e, v), 8)

\* EditIncomeForm saved with its date field cleared
clearIncomeDate ==
  \E id \in idsOf(store.incomes) :
    updateIncomeCall([findById(store.incomes, id) EXCEPT !.date = NoDate])

NextTrend == clearIncomeDate \/ delIncome \/ delExpense \/ delInvestment

SpecTrend == InitTrend /\ [][NextTrend]_vars

\* the rows of a collection dated in the month
datedIn(rows, ym) == {k \in DOMAIN rows : ymKey(rows[k].date) = ym}

\* the sum of the amounts of the rows at these indices
RECURSIVE sumAt(_, _)
sumAt(rows, idx) ==
  IF idx = {} THEN 0
  ELSE LET k == CHOOSE i \in idx : TRUE IN rows[k].amount + sumAt(rows, idx \ {k})

\* totals is the month-by-month aggregate of rows, as stated
aggregates(totals, rows) ==
  /\ \A k \in DOMAIN rows :
       rows[k].date # NoDate =>
         Cardinality({i \in DOMAIN totals : totals[i].month = ymKey(rows[k].date)}) = 1
  /\ \A i \in DOMAIN totals :
       /\ totals[i].month # NoYM
       /\ datedIn(rows, totals[i].month) # {}
       /\ totals[i].total = sumAt(rows, datedIn(rows, totals[i].month))
  /\ \A i \in DOMAIN totals : \A j \in DOMAIN totals :
       i < j => ymNum(totals[i].month) < ymNum(totals[j].month)

(***************************************************************************)
(* C21: monthlyTotals gives one pair for each year-month among the dated   *)
(* rows and no other, months ascending, each total the sum of the amounts  *)
(* of the rows of that month; a row with no date counts in no month.       *)
(***************************************************************************)
C21_MonthlyTotals ==
  /\ aggregates(monthlyTotals(store.incomes), store.incomes)
  /\ aggregates(monthlyTotals(store.expenses), store.expenses)
  /\ aggregates(monthlyTotals(store.investments), store.investments)

\* two incomes of one month and one with its date cleared
C21_Witness ==
  /\ last.op = "updateIncome"
  /\ \E k \in DOMAIN store.incomes : store.incomes[k].date = NoDate
  /\ \E i \in DOMAIN store.incomes : \E j \in DOMAIN store.incomes :
       /\ i # j
       /\ store.incomes[i].date # NoDate
       /\ ymKey(store.incomes[i].date) = ymKey(store.incomes[j].date)
\* value is what the series holds for the month, 0 when it holds nothing
entryOrZero(series, m, value) ==
  \/ \E i \in DOMAIN series : series[i].month = m /\ series[i].total = value
  \/ (\A i \in DOMAIN series : series[i].month # m) /\ value = 0

(***************************************************************************)
(* C22: the merged trend has one row for each month of the income, expense *)
(* or investment series and no other, months ascending; a series without   *)
(* the month contributes 0, and net is the row's income less its expenses. *)
(***************************************************************************)
C22_MergedTrend ==
  LET trend == mergedTrendRaw(store)
      months == monthsIn(incomeByMonth(store)) \cup monthsIn(expenseByMonth(store))
                \cup monthsIn(investmentByMonth(store))
  IN /\ {trend[i].month : i \in DOMAIN trend} = months
     /\ Len(trend) = Cardinality(months)
     /\ \A i \in DOMAIN trend : \A j \in DOMAIN trend :
          i < j => ymNum(trend[i].month) < ymNum(trend[j].month)
     /\ \A i \in DOMAIN trend :
          LET row == trend[i]
          IN /\ entryOrZero(incomeByMonth(store), row.month, row.income)
             /\ entryOrZero(expenseByMonth(store), row.month, row.expenses)
             /\ entryOrZero(investmentByMonth(store), row.month, row.investments)
             /\ row.net = row.income - row.expenses

\* a trend of three months: one of investments alone, one of incomes alone,
\* one of an expense alone
C22_Witness ==
  LET trend == mergedTrendRaw(store)
  IN /\ last.op = "delIncome"
     /\ Len(trend) = 3
     /\ trend[1].investments # 0 /\ trend[1].income = 0 /\ trend[1].expenses = 0
     /\ trend[2].income > 0 /\ trend[2].expenses = 0 /\ trend[2].net > 0
     /\ trend[3].expenses > 0 /\ trend[3].income = 0 /\ trend[3].net < 0
\* no transfer of the store is of an account to itself or of no amount
transfersValid == \A k \in DOMAIN store.transfers : ~transferRejected(store.transfers[k])

(***************************************************************************)
(* C23: every transfer in the store has fromAccountId different from       *)
(* toAccountId and a positive amount, and updateTransfer, like             *)
(* addTransfer, leaves the state as it was when the edited transfer is of  *)
(* an account to itself or of an amount that is not positive.              *)
(***************************************************************************)
C23_UpdateTransferValidates ==
  /\ []transfersValid
  /\ [][last'.op = "updateTransfer" =>
          \A id \in idsOf(store.transfers) \cap idsOf(store'.transfers) :
            LET edited == findById(store'.transfers, id)
            IN (updateTransferCall(edited) /\ transferRejected(edited)) => store' = store
       ]_vars
(***************************************************************************)
(* C24: in local mode delInvestment undoes what addInvestment of the same  *)
(* investment did to the balances: addInvestment moved the balance of the  *)
(* investment's account by -amount (down for a contribution, up for a      *)
(* withdrawal), so its delete moves that balance by +amount and leaves     *)
(* every other balance as it was.                                          *)
(***************************************************************************)
C24_DelInvestmentUndoesAdd ==
  [][(last'.op = "delInvestment" /\ ~cloudMode) =>
       \A id \in idsOf(store.investments) \ idsOf(store'.investments) :
         LET v == findById(store.investments, id)
         IN v.accountId # NoId =>
              /\ Len(store'.accounts) = Len(store.accounts)
              /\ \A k \in DOMAIN store.accounts :
                   store'.accounts[k].balance =
                     store.accounts[k].balance
                     + (IF store.accounts[k].id = v.accountId THEN v.amount ELSE 0)
    ]_vars
\* the journal entries of the store linked to this transfer, of this type
sidesOf(s, id, type) ==
  {k \in DOMAIN s.accountTxns :
     /\ s.accountTxns[k].linkedType = "Transfer"
     /\ s.accountTxns[k].linkedId = id
     /\ s.accountTxns[k].type = type}

\* the entry carries the date, the amount and the accounts of the transfer
carries(t, tr) ==
  /\ t.date = tr.date
  /\ t.amount = tr.amount
  /\ t.transferFromId = tr.fromAccountId
  /\ t.transferToId = tr.toAccountId

(***************************************************************************)
(* C25: in local mode, whatever addTransfer, updateTransfer and            *)
(* delTransfer did, every transfer in the store has one Withdrawal entry,  *)
(* on its current fromAccountId, and one Deposit entry, on its current     *)
(* toAccountId, both with its current date, amount, transferFromId and     *)
(* transferToId.                                                           *)
(***************************************************************************)
C25_TransferJournalCurrent ==
  \A i \in DOMAIN store.transfers :
    LET tr == store.transfers[i]
        out == sidesOf(store, tr.id, "Withdrawal")
        in == sidesOf(store, tr.id, "Deposit")
    IN /\ Cardinality(out) = 1
       /\ Cardinality(in) = 1
       /\ \A k \in out : store.accountTxns[k].accountId = tr.fromAccountId
                          /\ carries(store.accountTxns[k], tr)
       /\ \A k \in in : store.accountTxns[k].accountId = tr.toAccountId
                         /\ carries(store.accountTxns[k], tr)

\* a transfer edited to run the other way, on another date
C25_Witness ==
  /\ last = [op |-> "updateTransfer", info |-> "moved"]
  /\ \E i \in DOMAIN store.transfers :
       /\ store.transfers[i].fromAccountId = 2
       /\ store.transfers[i].toAccountId = 1
       /\ store.transfers[i].date = Date(2024, 2, 10)
       /\ store.accounts[1].balance > 0
(***************************************************************************)
(* Forms that kept their account selection: the capture forms hold the     *)
(* selected account id in their own state and do not reset it when that    *)
(* account is deleted, so an add can name an account that is gone.         *)
(***************************************************************************)
addIncomeSelected == \E inc \in IncomeInputs(savedStore) : addIncomeCall(inc)
addExpenseSelected == \E exp \in ExpenseInputs(savedStore) : addExpenseCall(exp)
addTransferSelected == \E tr \in TransferInputs(savedStore) : addTransferCall(tr)
addInvestmentSelected == \E v \in InvestmentInputs(savedStore) : addInvestmentCall(v)

NextMissing ==
  \/ delAccount
  \/ addIncomeSelected \/ addExpenseSelected \/ addTransferSelected
  \/ addInvestmentSelected
  \/ delIncome \/ delExpense \/ delTransfer \/ delInvestment

SpecMissing == InitLocal /\ [][NextMissing]_vars

\* delta if the account is the one named, else nothing
onAccount(account, accountId, delta) == IF account.id = accountId THEN delta ELSE 0

\* the accounts are those of before, each balance moved by delta(account)
balancesMoved(before, after, delta(_)) ==
  /\ Len(after) = Len(before)
  /\ \A k \in DOMAIN before :
       /\ after[k].id = before[k].id
       /\ after[k].balance = before[k].balance + delta(before[k])

candidates ==
  {i \in DOMAIN store.expenses :
     /\ recurrenceOccursThisMonth(store.expenses[i], month)
     /\ ymKey(store.expenses[i].date) # month}

(***************************************************************************)
(* C27: of the projected rows built for a month, the one of an expense is  *)
(* left out exactly when a real expense dated in that month has its        *)
(* category, amount and accountId; every other one is kept, once.          *)
(***************************************************************************)
C27_OmittedIffRealTwin ==
  LET rows == monthExpensesProjectedOnly(store.expenses, month, zone)
      kept == {i \in candidates : ~realTwin(store.expenses[i], month)}
  IN /\ \A i \in candidates :
          LET e == store.expenses[i]
          IN /\ (projectedOf(e.id) = {}) <=> realTwin(e, month)
             /\ ~realTwin(e, month) => Cardinality(projectedOf(e.id)) = 1
     /\ Len(rows) = Cardinality(kept)

\* March 2024 with the rent paid by hand: its projected row is left out
C27_Witness ==
  /\ last.op = "MonthSwitcher"
  /\ month = YM(2024, 3)
  /\ \E i \in candidates : realTwin(store.expenses[i], month)
  /\ monthExpensesProjectedOnly(store.expenses, month, zone) = << >>
\* the legacy expense e with its recurrence spelled out: enabled, monthly,
\* starting on its own date
spelledOut(e) ==
  [e EXCEPT !.recurrence = [present |-> TRUE, enabled |-> TRUE, period |-> "monthly",
                            start |-> e.date, end |-> NoDate]]

\* the rows without the recurrence each copies from its source expense
lessRecurrence(rows) == [k \in DOMAIN rows |-> [rows[k] EXCEPT !.recurrence = NoRecurrence]]

\* the expenses of the store that recur by the legacy switch alone
legacy == {i \in DOMAIN store.expenses :
             store.expenses[i].isRecurring /\ ~store.expenses[i].recurrence.present}

(***************************************************************************)
(* C28: an expense with isRecurring true and no recurrence object is       *)
(* treated in every month like the same expense with the recurrence        *)
(* {enabled, monthly, start = its own date}: it occurs in the same months  *)
(* and the projection shows the same rows (each row carrying the           *)
(* recurrence of the expense it was copied from).                          *)
(***************************************************************************)
C28_LegacyIsMonthlyFromOwnDate ==
  \A i \in legacy : \A ym \in Months :
    LET e == store.expenses[i]
        twin == replaceById(store.expenses, spelledOut(e))
    IN /\ recurrenceOccursThisMonth(e, ym) = recurrenceOccursThisMonth(spelledOut(e), ym)
       /\ lessRecurrence(monthExpensesProjectedOnly(store.expenses, ym, zone))
          = lessRecurrence(monthExpensesProjectedOnly(twin, ym, zone))

\* a legacy expense on display in a month it is projected into
C28_Witness ==
  /\ last.op = "MonthSwitcher"
  /\ \E i \in legacy :
       LET twin == replaceById(store.expenses, spelledOut(store.expenses[i]))
       IN /\ projectedOf(store.expenses[i].id) # {}
          /\ monthExpensesProjectedOnly(twin, month, zone) # << >>
          /\ \E ym \in Months : ~recurrenceOccursThisMonth(store.expenses[i], ym)
(***************************************************************************)
(* Two refreshes in flight: the page in cloud mode showing a workspace     *)
(* with one account and one income, "Refresh from cloud" pressed, and,     *)
(* before its lists return, an edit of the income saved, whose handler     *)
(* writes to the backend and then refreshes.                               *)
(***************************************************************************)
overlapCloud ==
  [emptyCloud EXCEPT
     !.accounts = insertRow(@, [name |-> <<"Cash">>, type |-> "Wallet", currency |-> "USD",
                                balance |-> 5 * Unit], 1),
     !.transactions = insertRow(@, [account_id |-> 1, trx_date |-> Date(2024, 1, 5),
                                    amount |-> 1 * Unit, description |-> <<"Salary">>], 2)]

overlapStore(derive) == hydrateStore(emptyStore(1), listAll(overlapCloud), derive)

InitOverlap ==
  \E derive \in BOOLEAN : \E edit \in IncomeEdits(overlapStore(derive)) :
    /\ store = overlapStore(derive)
    /\ nextId = 3
    /\ last = [op |-> "updateIncome", info |-> "same"]
    /\ cloudOn = TRUE
    /\ workspaceId = TheWorkspace
    /\ deriveBalances = derive
    /\ cloudLoading = TRUE
    /\ cloud = overlapCloud
    /\ tasks = <<[op |-> "refresh", arg |-> NoId, pc |-> "hydRead",
                  accts |-> store.accounts, derive |-> derive, todo |-> << >>,
                  ids |-> << >>, rows |-> NoRows],
                 [op |-> "updateIncome", arg |-> withId(edit, 2), pc |-> "write",
                  accts |-> store.accounts, derive |-> derive, todo |-> << >>,
                  ids |-> << >>, rows |-> NoRows]>>
    /\ outcome = "none"
    /\ selectedMonth = [y |-> 2024, m |-> 1]
    /\ zone = "utc"
    /\ dbClosed

NextOverlap == remoteWrite \/ hydrateRead \/ hydrateApply

SpecOverlap == InitOverlap /\ [][NextOverlap]_vars

\* the collections and balances a refresh takes from the backend
backendSourced(s) ==
  [accounts |-> s.accounts, incomes |-> s.incomes, expenses |-> s.expenses,
   transfers |-> s.transfers, investments |-> s.investments, projects |-> s.projects,
   projectContribs |-> s.projectContribs]

(***************************************************************************)
(* C29: of two refreshes in flight in remote mode the one started later is *)
(* authoritative: when the refresh started first ends after the one        *)
(* started later has ended, the store keeps the collections and balances   *)
(* the later one put there, whatever the order their lists returned in.    *)
(***************************************************************************)
C29_LaterRefreshWins ==
  [][(last' = [op |-> "hydrate", info |-> "refresh"] /\ tasks' = << >>) =>
       backendSourced(store') = backendSourced(store)
    ]_vars
(***************************************************************************)
(* The "Derived balances" switch: onCheckedChange(v) sets the setting to v *)
(* and, with a workspace, calls the hydrateFromSupabase of the render the  *)
(* switch was drawn in, whose closure holds the deriveBalances of that     *)
(* render.                                                                 *)
(***************************************************************************)
onCheckedChange ==
  \E v \in {~deriveBalances} :
    /\ called("onCheckedChange", "ok")
    /\ deriveBalances' = v
    /\ IF workspaceId # NoId
       THEN /\ Len(tasks) < MaxTasks
            /\ tasks' = Append(tasks, [newTask("refresh", NoId, << >>) EXCEPT
                                         !.op = "onCheckedChange", !.arg = v])
            /\ cloudLoading' = TRUE
       ELSE UNCHANGED <<tasks, cloudLoading>>
    /\ UNCHANGED <<store, nextId, cloudOn, workspaceId, selectedMonth, zone, cloud, outcome>>

\* the page in cloud mode showing a workspace whose account holds a balance
\* other than the sum of its activity, nothing in flight
InitSwitch ==
  \E derive \in BOOLEAN :
    /\ store = overlapStore(derive)
    /\ nextId = 3
    /\ last = [op |-> "init", info |-> "ok"]
    /\ cloudOn = TRUE
    /\ workspaceId = TheWorkspace
    /\ deriveBalances = derive
    /\ cloudLoading = FALSE
    /\ cloud = overlapCloud
    /\ tasks = << >>
    /\ outcome = "none"
    /\ selectedMonth = [y |-> 2024, m |-> 1]
    /\ zone = "utc"
    /\ dbClosed

NextSwitch ==
  \/ onCheckedChange \/ refresh
  \/ updateIncome \/ delIncome
  \/ remoteWrite \/ hydrateRead \/ hydrateApply

SpecSwitch == InitSwitch /\ [][NextSwitch]_vars

\* every account the lists returned has in s the balance they returned
balancesAsReturned(s, rows) ==
  \A i \in DOMAIN accountsCloud(rows) :
    LET a == accountsCloud(rows)[i]
    IN hasId(s.accounts, a.id) /\ findById(s.accounts, a.id).balance = a.balance

(***************************************************************************)
(* C30: the refresh that a change of the derive-balances switch triggers   *)
(* is governed by the new value of the setting: switched on, it leaves     *)
(* every balance equal to the sum of the signed effects of the account's   *)
(* activity; switched off, it leaves the balances the backend returned.    *)
(***************************************************************************)
C30_SwitchGovernsItsRefresh ==
  [][\A i \in DOMAIN tasks :
       (/\ tasks[i].op = "onCheckedChange" /\ tasks[i].pc = "hydApply"
        /\ tasks' = withoutTask(i)
        /\ last' = [op |-> "hydrate", info |-> "onCheckedChange"])
       => IF tasks[i].arg
          THEN derived(store') = store'.accounts
          ELSE balancesAsReturned(store', tasks[i].rows)
    ]_vars

(***************************************************************************)
(* C31: a transfer that the validation of addTransfer refuses (same        *)
(* account on both sides, or an amount that is not positive) signals its   *)
(* failure to the caller: the call leaves an outcome the caller can tell   *)
(* from that of an accepted transfer, which leaves the outcome as it was.  *)
(***************************************************************************)
C31_RejectionIsSignalled ==
  [][(last'.op = "addTransfer" /\ last'.info = "rejected") => outcome' # outcome]_vars

\* the handlers that add, update or delete records
Mutators ==
  {"addIncome", "delIncome", "updateIncome", "addExpense", "delExpense", "updateExpense",
   "addTransfer", "delTransfer", "updateTransfer", "addInvestment", "delInvestment",
   "addProject", "delProject", "addProjectContribution", "delProjectContribution"}

(***************************************************************************)
(* C32: in remote mode, when a call to the backend made by a mutator       *)
(* fails, the failure is reported to the user as an error notification;    *)
(* no mutator's failure is left unreported.                                *)
(***************************************************************************)
C32_RemoteFailureIsReported ==
  [][(last'.op = "failed" /\ last'.info \in Mutators) => outcome' = "alert"]_vars

\* accounts created and deleted, incomes, expenses and transfers added,
\* edited and deleted
NextBooks ==
  \/ addIncome \/ delIncome \/ updateIncome
  \/ addExpense \/ delExpense \/ updateExpense
  \/ addTransfer \/ delTransfer \/ updateTransfer
  \/ addAccount \/ delAccount

SpecBooks == InitLocal /\ [][NextBooks]_vars

\* the Deposit entries of the journal of s on the account less its
\* Withdrawal entries
journalNet(s, accountId) ==
  LET signed(t) == IF t.accountId # accountId THEN 0
                   ELSE IF t.type = "Deposit" THEN t.amount ELSE -t.amount
  IN sumSeq(mapSeq(s.accountTxns, signed))

\* what the account was created with, as far as s tells: its balance less
\* the net of its journal entries
openingOf(s, accountId) == findById(s.accounts, accountId).balance - journalNet(s, accountId)

(***************************************************************************)
(* C33: in local mode, through account creation and deletion and every add,*)
(* update and delete of incomes, expenses and transfers, the balance of    *)
(* every existing account is the balance it was created with plus its      *)
(* Deposit journal entries minus its Withdrawal journal entries: no step   *)
(* changes balance minus journal net of an account that stays, and an      *)
(* account a step creates has no journal entries.                          *)
(***************************************************************************)
C33_BalanceIsOpeningPlusJournal ==
  [][\A i \in DOMAIN store'.accounts :
       LET id == store'.accounts[i].id
       IN IF hasId(store.accounts, id)
          THEN openingOf(store', id) = openingOf(store, id)
          ELSE journalNet(store', id) = 0
    ]_vars

\* an income was moved to another account, and an account created with a
\* balance has journal entries that do not cancel
C33_Witness ==
  /\ last = [op |-> "updateIncome", info |-> "moved"]
  /\ \E i \in DOMAIN store.accounts :
       /\ openingOf(store, store.accounts[i].id) # 0
       /\ journalNet(store, store.accounts[i].id) # 0

\* the collection holding the source records of a journal entry's kind
recordsOfKind(s, linkedType) ==
  IF linkedType = "Income" THEN s.incomes
  ELSE IF linkedType = "Expense" THEN s.expenses
  ELSE s.transfers

(***************************************************************************)
(* C34: in every reachable store, in either mode, every journal entry      *)
(* refers to an existing record of its own kind: an entry with linkedType  *)
(* Income, Expense or Transfer has for linkedId the id of a record now in  *)
(* incomes, expenses or transfers respectively.                            *)
(***************************************************************************)
C34_JournalEntriesHaveSources ==
  \A i \in DOMAIN store.accountTxns :
    LET t == store.accountTxns[i]
    IN t.linkedType \in {"Income", "Expense", "Transfer"}
       /\ hasId(recordsOfKind(store, t.linkedType), t.linkedId)

\* a call of hydrateFromSupabase is between its setCloudLoading(true) and
\* its finally
refreshing(task) == task.pc \in {"hydRead", "hydApply"}

(***************************************************************************)
(* C35: cloudLoading is true whenever at least one refresh is in flight,   *)
(* also when refreshes overlap: it becomes false only when the last        *)
(* refresh in flight has finished.                                         *)
(***************************************************************************)
C35_LoadingWhileRefreshing ==
  (\E i \in DOMAIN tasks : refreshing(tasks[i])) => cloudLoading

(***************************************************************************)
(* Two handlers in flight that resolve accounts: the page in cloud mode    *)
(* over a new workspace, an income added and, before its                   *)
(* ensureCloudAccountId has listed the backend's accounts, a transfer      *)
(* added.                                                                  *)
(***************************************************************************)
RaceIncomes == {inc \in IncomeInputs(savedStore) : inc.date = Date(2024, 1, 5)}

RaceTransfers ==
  {tr \in TransferInputs(savedStore) : ~transferRejected(tr) /\ tr.date = Date(2024, 1, 5)}

InitRace ==
  \E inc \in RaceIncomes : \E tr \in RaceTransfers :
    /\ store = savedStore
    /\ nextId = 3
    /\ last = [op |-> "addTransfer", info |-> "ok"]
    /\ cloudOn = TRUE
    /\ workspaceId = TheWorkspace
    /\ deriveBalances = TRUE
    /\ cloudLoading = FALSE
    /\ cloud = emptyCloud
    /\ tasks = <<[op |-> "addIncome", arg |-> inc, pc |-> "ensList",
                  accts |-> savedStore.accounts, derive |-> TRUE,
                  todo |-> <<inc.accountId>>, ids |-> << >>, rows |-> NoRows],
                 [op |-> "addTransfer", arg |-> tr, pc |-> "ensList",
                  accts |-> savedStore.accounts, derive |-> TRUE,
                  todo |-> <<tr.fromAccountId, tr.toAccountId>>, ids |-> << >>,
                  rows |-> NoRows]>>
    /\ outcome = "ok"
    /\ selectedMonth = [y |-> 2024, m |-> 1]
    /\ zone = "utc"
    /\ dbClosed

NextRace ==
  \/ ensureList \/ ensureAdd \/ ensureRelist
  \/ remoteWrite \/ hydrateRead \/ hydrateApply

SpecRace == InitRace /\ [][NextRace]_vars

\* two rows of the backend's accounts stand for the same local account
sameLocal(a, b) == a.name = b.name /\ a.type = b.type /\ a.currency = b.currency

(***************************************************************************)
(* C36: resolving local accounts to backend accounts never leaves the      *)
(* backend with more than one account for the same local account (same     *)
(* name, type and currency), also when two handlers that reference the     *)
(* account run concurrently before either has created it.                  *)
(***************************************************************************)
C36_OneBackendAccountPerLocal ==
  \A i, j \in DOMAIN cloud.accounts :
    sameLocal(cloud.accounts[i], cloud.accounts[j]) => i = j

(***************************************************************************)
(* Recurring expenses entered in cloud mode: CaptureExpense with the       *)
(* recurring switch and the recurrence fields, over a new workspace        *)
(***************************************************************************)
addRecurringExpense == \E exp \in RecurringInputs : addExpenseCall(exp)

NextRecurringCloud ==
  \/ addRecurringExpense
  \/ ensureList \/ ensureAdd \/ ensureRelist
  \/ remoteWrite \/ hydrateRead \/ hydrateApply

SpecRecurringCloud == InitCloud /\ [][NextRecurringCloud]_vars

\* the expense of s that was entered as exp, with the recurrence entered
keptRecurring(s, exp) ==
  \E k \in DOMAIN s.expenses :
    /\ s.expenses[k].date = exp.date
    /\ s.expenses[k].category = exp.category
    /\ s.expenses[k].amount = exp.amount
    /\ s.expenses[k].recurrence = exp.recurrence

(***************************************************************************)
(* C37: an expense added in remote mode with recurrence enabled is still   *)
(* recurring after its write and the refresh that follows: the expense in  *)
(* the store after the refresh has the recurrence settings (enabled,       *)
(* period, start, end) that were entered.                                  *)
(***************************************************************************)
C37_RecurrenceSurvivesRefresh ==
  [][\A i \in DOMAIN tasks :
       (/\ tasks[i].op = "addExpense" /\ tasks[i].pc = "hydApply"
        /\ tasks' = withoutTask(i)
        /\ last' = [op |-> "hydrate", info |-> "addExpense"]
        /\ tasks[i].arg.recurrence.present /\ tasks[i].arg.recurrence.enabled)
       => keptRecurring(store', tasks[i].arg)
    ]_vars

(***************************************************************************)
(* The embedded database (db.ts).  getDb tests dbPromise, awaits           *)
(* appDataDir and join when it is null, and then stores the promise of     *)
(* Database.load in dbPromise and returns it.  A caller is one call of     *)
(* getDb, made by exec or query: pc is the await it is suspended at, got   *)
(* the connection its promise stands for.  A connection is named by the    *)
(* number of the Database.load call that opened it.                        *)
(***************************************************************************)
MaxCallers == 3

pageUnchanged ==
  UNCHANGED <<store, nextId, last, cloudOn, workspaceId, deriveBalances, cloudLoading,
              cloud, tasks, outcome, selectedMonth, zone>>

\* exec or query calls getDb: it runs up to its first await, or, with
\* dbPromise set, to its return
getDb ==
  \E op \in {"exec", "query"} :
    /\ Len(callers) < MaxCallers
    /\ callers' = Append(callers,
                         IF dbPromise = NoDb
                         THEN [op |-> op, pc |-> "appDataDir", got |-> NoDb]
                         ELSE [op |-> op, pc |-> "returned", got |-> dbPromise])
    /\ UNCHANGED <<dbPromise, loads>>
    /\ pageUnchanged

\* await appDataDir() returns: the caller goes on to await join(...)
appDataDir ==
  \E i \in DOMAIN callers :
    /\ callers[i].pc = "appDataDir"
    /\ callers' = [callers EXCEPT ![i].pc = "join"]
    /\ UNCHANGED <<dbPromise, loads>>
    /\ pageUnchanged

\* await join(...) returns: dbPromise = Database.load(...); return dbPromise
join ==
  \E i \in DOMAIN callers :
    /\ callers[i].pc = "join"
    /\ loads' = loads + 1
    /\ dbPromise' = loads + 1
    /\ callers' = [callers EXCEPT ![i].pc = "returned", ![i].got = loads + 1]
    /\ pageUnchanged

InitDb ==
  /\ store = savedStore
  /\ nextId = 3
  /\ last = [op |-> "init", info |-> "ok"]
  /\ cloudOn = FALSE
  /\ workspaceId = NoId
  /\ deriveBalances = TRUE
  /\ cloudLoading = FALSE
  /\ cloud = emptyCloud
  /\ tasks = << >>
  /\ outcome = "none"
  /\ selectedMonth = [y |-> 2024, m |-> 1]
  /\ zone = "utc"
  /\ dbClosed

NextDb == getDb \/ appDataDir \/ join

SpecDb == InitDb /\ [][NextDb]_vars

(***************************************************************************)
(* C38: getDb opens the embedded database at most once per process: for    *)
(* any number of calls, also calls that start before the first has         *)
(* finished, Database.load is invoked at most once and every caller that   *)
(* has returned has the same connection.                                   *)
(***************************************************************************)
C38_DatabaseLoadedOnce ==
  /\ loads <= 1
  /\ \A i, j \in DOMAIN callers :
       (callers[i].pc = "returned" /\ callers[j].pc = "returned")
         => callers[i].got = callers[j].got
====
